---- MODULE Spec2Model ----
(***************************************************************************)
(* Model of the manga catalog backend: the manga service and repository    *)
(* (ownership-scoped mutation, soft delete), the pagination calculator,    *)
(* the list and item handlers, the entity sanitizers and the user and      *)
(* authentication services.                                                *)
(*                                                                         *)
(* The specifications share the variables:                                 *)
(*   Spec            the service calls CreateManga / UpdateManga /         *)
(*                   DeleteManga and the plain reads, processed one after  *)
(*                   the other against the store;                          *)
(*   SpecList        the list handlers, processed one after the other      *)
(*                   against a store that nobody writes to;                *)
(*   SpecPagination  the pagination calculator applied to bounded inputs;  *)
(*   SpecSanitize    the entity sanitizers applied to bounded inputs;      *)
(*   SpecUser        the user and authentication services against the      *)
(*                   users table;                                          *)
(*   SpecHTTP        the manga handlers that take one item;                *)
(*   SpecRace        a paginated list, its count and its fetch apart,      *)
(*                   next to the creates and deletes of other requests;    *)
(*   SpecAPI         the routes under /api/v1 with the authentication      *)
(*                   middleware and the response envelope;                 *)
(*   SpecUpdateRace  UpdateManga, its read and its write apart, next to    *)
(*                   the creates and deletes of other requests.            *)
(***************************************************************************)
EXTENDS Integers, Sequences, FiniteSets, TLC

VARIABLES mangas, resp, calc, users, pending

vars == <<mangas, resp, calc, users, pending>>

(***************************************************************************)
(* Bounds of the model.                                                    *)
(***************************************************************************)
\* most rows the mangas table holds
MaxMangas == 2
\* acting user IDs are 0..MaxUser (0 is the zero value of uint)
MaxUser == 2
\* width of Go's int in the model (the program's int is wider; the model
\* keeps two's-complement wraparound and scales the width down)
IntBits == 16
\* page sizes -1..MaxSmallSize are enumerated next to those around 100
MaxSmallSize == 4
\* small page numbers -1..MaxSmallPage are enumerated next to the huge ones
MaxSmallPage == 4
\* largest row count handed to NewPaginationResponse on its own
MaxTotal == 12
\* instants of the store's clock are 0 .. MaxTime
MaxTime == 1
\* most rows the mangas table holds behind the routes of the API
MaxAPIMangas == 1

(***************************************************************************)
(* Program constants.                                                      *)
(***************************************************************************)
\* NewPaginationRequest: upper limit of PageSize
MaxPageSize == 100
\* NewPaginationRequest: PageSize used when the given one is out of range
DefaultPageSize == 10
\* NewPaginationRequest: Page used when the given one is below 1
DefaultPage == 1

UserIDs == 0 .. MaxUser
MangaIDs == 0 .. (MaxMangas + 1)

ErrNone == ""
ErrInvalid == "invalid manga data"
ErrNotFound == "manga not found"
ErrGet == "failed to get manga"
ErrCreate == "failed to create manga"
ErrUpdate == "failed to update manga"
ErrDelete == "failed to delete manga"
ErrCount == "failed to count mangas"
ErrFind == "failed to get paginated mangas"
ErrDeniedUpdate == "access denied: you can only update your own manga"
ErrDeniedDelete == "access denied: you can only delete your own manga"

(***************************************************************************)
(* domain.Manga.  The mangas table is a sequence of rows; the row at       *)
(* position i has primary key i.  Deleted is the DeletedAt column being    *)
(* set.                                                                    *)
(***************************************************************************)
Manga(id, name, price, active, owner, deleted) ==
    [ID |-> id, Name |-> name, Price |-> price, IsActive |-> active,
     UserCreated |-> owner, Deleted |-> deleted]

NoManga == Manga(0, "", 0, FALSE, 0, FALSE)

IsValid(m) == m.Name # "" /\ m.Price >= 0 /\ m.UserCreated > 0

\* Manga.Sanitize copies every field but DeletedAt, which stays zero
Sanitize(m) == [m EXCEPT !.Deleted = FALSE]

(***************************************************************************)
(* domain.User.  The users table is a sequence of rows; the row at         *)
(* position i has primary key i.  Password holds the password hash ("" is  *)
(* the zero value), CreatedAt and UpdatedAt are instants of the store's    *)
(* clock, Deleted is the DeletedAt column being set.                       *)
(***************************************************************************)
User(id, name, email, password, createdAt, updatedAt, deleted) ==
    [ID |-> id, Name |-> name, Email |-> email, Password |-> password,
     CreatedAt |-> createdAt, UpdatedAt |-> updatedAt, Deleted |-> deleted]

NoUser == User(0, "", "", "", 0, 0, FALSE)

UserIsValid(u) == u.Name # "" /\ u.Email # "" /\ u.Password # ""

UserSanitizeKeepsPassword(u) == [u EXCEPT !.Deleted = FALSE]

\* User.Sanitize copies ID, Name, Email, CreatedAt and UpdatedAt into a new
\* User; Password and DeletedAt stay zero
UserSanitize(u) ==
    User(u.ID, u.Name, u.Email, "", u.CreatedAt, u.UpdatedAt, FALSE)

(***************************************************************************)
(* mangaRepository.  Every call can fail in the database: the flag fail    *)
(* is that outcome.                                                        *)
(***************************************************************************)
\* db.Create: the row gets the next primary key
RepoCreate(store, m, fail) ==
    IF fail THEN [mangas |-> store, err |-> ErrCreate, manga |-> m]
    ELSE LET row == [m EXCEPT !.ID = Len(store) + 1]
         IN  [mangas |-> Append(store, row), err |-> ErrNone, manga |-> row]

GetByIDUnscoped(store, id, fail) ==
    IF fail THEN [err |-> ErrGet, manga |-> NoManga]
    ELSE IF id \in 1 .. Len(store)
         THEN [err |-> ErrNone, manga |-> store[id]]
         ELSE [err |-> ErrNotFound, manga |-> NoManga]

\* db.First(&manga, id): soft-deleted rows are not found
GetByID(store, id, fail) ==
    IF fail THEN [err |-> ErrGet, manga |-> NoManga]
    ELSE IF id \in 1 .. Len(store) /\ ~store[id].Deleted
         THEN [err |-> ErrNone, manga |-> store[id]]
         ELSE [err |-> ErrNotFound, manga |-> NoManga]

\* db.Save(manga): every column of the row with the manga's key is written
RepoUpdate(store, m, fail) ==
    IF fail THEN [mangas |-> store, err |-> ErrUpdate]
    ELSE IF m.ID \in 1 .. Len(store)
         THEN [mangas |-> [store EXCEPT ![m.ID] = m], err |-> ErrNone]
         ELSE [mangas |-> store, err |-> ErrNone]

\* db.Delete(&Manga{}, id): sets DeletedAt of the row if it is not deleted
RepoDelete(store, id, fail) ==
    IF fail THEN [mangas |-> store, err |-> ErrDelete]
    ELSE IF id \in 1 .. Len(store) /\ ~store[id].Deleted
         THEN [mangas |-> [store EXCEPT ![id].Deleted = TRUE], err |-> ErrNone]
         ELSE [mangas |-> store, err |-> ErrNone]

(***************************************************************************)
(* mangaService: create, update, delete.                                   *)
(***************************************************************************)
CreateMangaOwnerFromBody(store, req, userID, fail) ==
    LET manga == Manga(0, req.Name, req.Price, req.IsActive, req.UserCreated,
                       FALSE)
    IN  IF ~IsValid(manga)
        THEN [mangas |-> store, err |-> ErrInvalid, manga |-> NoManga]
        ELSE LET c == RepoCreate(store, manga, fail)
             IN  IF c.err # ErrNone
                 THEN [mangas |-> c.mangas, err |-> c.err, manga |-> NoManga]
                 ELSE [mangas |-> c.mangas, err |-> ErrNone,
                       manga |-> Sanitize(c.manga)]

\* mangaService.CreateManga: the owner is the userID argument
CreateManga(store, req, userID, fail) ==
    LET manga == Manga(0, req.Name, req.Price, req.IsActive, userID, FALSE)
    IN  IF ~IsValid(manga)
        THEN [mangas |-> store, err |-> ErrInvalid, manga |-> NoManga]
        ELSE LET c == RepoCreate(store, manga, fail)
             IN  IF c.err # ErrNone
                 THEN [mangas |-> c.mangas, err |-> c.err, manga |-> NoManga]
                 ELSE [mangas |-> c.mangas, err |-> ErrNone,
                       manga |-> Sanitize(c.manga)]

\* the ownership check left out / turned around (mutants of OwnedBy)
OwnedByAnyone(manga, userID) == TRUE
OwnedByOthers(manga, userID) == manga.UserCreated # userID

\* the ownership check of UpdateManga and DeleteManga
OwnedBy(manga, userID) == manga.UserCreated = userID

UpdateManga(store, id, req, userID, getFail, saveFail) ==
    LET g == GetByID(store, id, getFail)
    IN  IF g.err # ErrNone
        THEN [mangas |-> store, err |-> g.err, manga |-> NoManga]
        ELSE IF ~OwnedBy(g.manga, userID)
        THEN [mangas |-> store, err |-> ErrDeniedUpdate, manga |-> NoManga]
        ELSE LET m == [g.manga EXCEPT !.Name = req.Name,
                                      !.Price = req.Price,
                                      !.IsActive = req.IsActive]
                 u == RepoUpdate(store, m, saveFail)
             IN  IF u.err # ErrNone
                 THEN [mangas |-> u.mangas, err |-> u.err, manga |-> NoManga]
                 ELSE [mangas |-> u.mangas, err |-> ErrNone,
                       manga |-> Sanitize(m)]

DeleteManga(store, id, userID, getFail, delFail) ==
    LET g == GetByID(store, id, getFail)
    IN  IF g.err # ErrNone
        THEN [mangas |-> store, err |-> g.err]
        ELSE IF ~OwnedBy(g.manga, userID)
        THEN [mangas |-> store, err |-> ErrDeniedDelete]
        ELSE RepoDelete(store, id, delFail)

(***************************************************************************)
(* userRepository.  The users table has a unique index on email, which     *)
(* also covers the soft-deleted rows; rows written here carry the instant  *)
(* 0 of the store's clock.                                                 *)
(***************************************************************************)
UErrExists == "user with this email already exists"
UErrNotFound == "user not found"
UErrGet == "failed to get user"
UErrCreate == "failed to create user"
UErrUpdate == "failed to update user"
UErrDelete == "failed to delete user"
UErrList == "failed to get users"
UErrInvalid == "invalid user data"
UErrLogin == "invalid email or password"
UErrToken == "invalid token"

\* another row of the table holds the email
EmailTaken(store, id, email) ==
    \E i \in 1 .. Len(store) : i # id /\ store[i].Email = email

\* db.Create: the row gets the next primary key
UserRepoCreate(store, u, fail) ==
    IF fail \/ EmailTaken(store, 0, u.Email)
    THEN [users |-> store, err |-> UErrCreate, user |-> u]
    ELSE LET row == [u EXCEPT !.ID = Len(store) + 1]
         IN  [users |-> Append(store, row), err |-> ErrNone, user |-> row]

\* db.First(&user, id): soft-deleted rows are not found
UserGetByID(store, id, fail) ==
    IF fail THEN [err |-> UErrGet, user |-> NoUser]
    ELSE IF id \in 1 .. Len(store) /\ ~store[id].Deleted
         THEN [err |-> ErrNone, user |-> store[id]]
         ELSE [err |-> UErrNotFound, user |-> NoUser]

\* db.Where("email = ?", email).First(&user)
UserGetByEmail(store, email, fail) ==
    LET found == {i \in 1 .. Len(store) :
                     store[i].Email = email /\ ~store[i].Deleted}
    IN  IF fail THEN [err |-> UErrGet, user |-> NoUser]
        ELSE IF found = {} THEN [err |-> UErrNotFound, user |-> NoUser]
        ELSE [err |-> ErrNone,
              user |-> store[CHOOSE i \in found : \A j \in found : i <= j]]

\* db.Save(user): every column of the row with the user's key is written
UserRepoUpdate(store, u, fail) ==
    IF fail \/ EmailTaken(store, u.ID, u.Email)
    THEN [users |-> store, err |-> UErrUpdate]
    ELSE IF u.ID \in 1 .. Len(store)
         THEN [users |-> [store EXCEPT ![u.ID] = u], err |-> ErrNone]
         ELSE [users |-> store, err |-> ErrNone]

\* db.Delete(&User{}, id): sets DeletedAt of the row if it is not deleted
UserRepoDelete(store, id, fail) ==
    IF fail THEN [users |-> store, err |-> UErrDelete]
    ELSE IF id \in 1 .. Len(store) /\ ~store[id].Deleted
         THEN [users |-> [store EXCEPT ![id].Deleted = TRUE], err |-> ErrNone]
         ELSE [users |-> store, err |-> ErrNone]

RECURSIVE LiveUsers(_, _)
\* db.Find(&users): the rows that are not soft-deleted, from row i on
LiveUsers(store, i) ==
    IF i > Len(store) THEN <<>>
    ELSE IF store[i].Deleted THEN LiveUsers(store, i + 1)
    ELSE <<store[i]>> \o LiveUsers(store, i + 1)

UserRepoList(store, fail) ==
    IF fail THEN [err |-> UErrList, users |-> <<>>]
    ELSE [err |-> ErrNone, users |-> LiveUsers(store, 1)]

(***************************************************************************)
(* Password hashing and tokens.  A hash is never empty, and a password     *)
(* matches exactly the hash made of it.  A token carries the user ID and   *)
(* email it was issued for; ok says whether it verifies (signature and     *)
(* expiry).                                                                *)
(***************************************************************************)
HashPassword(password) ==
    IF password = "" THEN "$" ELSE IF password = "p" THEN "$p" ELSE "$q"

CheckPasswordHash(password, hash) == hash = HashPassword(password)

NoToken == [ok |-> FALSE, UserID |-> 0, Email |-> ""]

GenerateJWT(userID, email) == [ok |-> TRUE, UserID |-> userID, Email |-> email]

ValidateJWT(token) ==
    IF token.ok THEN [err |-> ErrNone, UserID |-> token.UserID]
    ELSE [err |-> UErrToken, UserID |-> 0]

(***************************************************************************)
(* authService and userService of the core, and the legacy AuthService.    *)
(* A call returns the table it leaves, its error, the user and the token   *)
(* it hands back and, for GetUsers, the list.                              *)
(***************************************************************************)
UserResult(store, err, user, token, list) ==
    [users |-> store, err |-> err, user |-> user, token |-> token,
     list |-> list]

UserFailed(store, err) == UserResult(store, err, NoUser, NoToken, <<>>)

RegisterWithoutLookup(store, req, getFail, createFail) ==
    LET user == User(0, req.Name, req.Email, HashPassword(req.Password),
                     0, 0, FALSE)
    IN  IF ~UserIsValid(user) THEN UserFailed(store, UErrInvalid)
        ELSE LET c == UserRepoCreate(store, user, createFail)
             IN  IF c.err # ErrNone THEN UserFailed(store, c.err)
                 ELSE UserResult(c.users, ErrNone, UserSanitize(c.user),
                                 GenerateJWT(c.user.ID, c.user.Email), <<>>)

\* authService.Register: any error of GetByEmail counts as "no such user"
Register(store, req, getFail, createFail) ==
    IF UserGetByEmail(store, req.Email, getFail).err = ErrNone
    THEN UserFailed(store, UErrExists)
    ELSE LET user == User(0, req.Name, req.Email, HashPassword(req.Password),
                          0, 0, FALSE)
         IN  IF ~UserIsValid(user) THEN UserFailed(store, UErrInvalid)
             ELSE LET c == UserRepoCreate(store, user, createFail)
                  IN  IF c.err # ErrNone THEN UserFailed(store, c.err)
                      ELSE UserResult(c.users, ErrNone, UserSanitize(c.user),
                                      GenerateJWT(c.user.ID, c.user.Email),
                                      <<>>)

LoginTellsUnknownEmail(store, req, getFail) ==
    LET g == UserGetByEmail(store, req.Email, getFail)
    IN  IF g.err # ErrNone THEN UserFailed(store, g.err)
        ELSE IF ~CheckPasswordHash(req.Password, g.user.Password)
        THEN UserFailed(store, UErrLogin)
        ELSE UserResult(store, ErrNone, UserSanitize(g.user),
                        GenerateJWT(g.user.ID, g.user.Email), <<>>)

\* authService.Login
Login(store, req, getFail) ==
    LET g == UserGetByEmail(store, req.Email, getFail)
    IN  IF g.err # ErrNone THEN UserFailed(store, UErrLogin)
        ELSE IF ~CheckPasswordHash(req.Password, g.user.Password)
        THEN UserFailed(store, UErrLogin)
        ELSE UserResult(store, ErrNone, UserSanitize(g.user),
                        GenerateJWT(g.user.ID, g.user.Email), <<>>)

\* authService.GetUserByID and userService.GetUserByID
GetUserByID(store, id, getFail) ==
    LET g == UserGetByID(store, id, getFail)
    IN  IF g.err # ErrNone THEN UserFailed(store, g.err)
        ELSE UserResult(store, ErrNone, UserSanitize(g.user), NoToken, <<>>)

\* authService.ValidateToken
ValidateToken(store, token, getFail) ==
    LET claims == ValidateJWT(token)
    IN  IF claims.err # ErrNone THEN UserFailed(store, UErrToken)
        ELSE LET g == UserGetByID(store, claims.UserID, getFail)
             IN  IF g.err # ErrNone THEN UserFailed(store, UErrNotFound)
                 ELSE UserResult(store, ErrNone, UserSanitize(g.user), NoToken,
                                 <<>>)

\* userService.CreateUser: the new user has a name and an email only
CreateUser(store, req, getFail, createFail) ==
    IF UserGetByEmail(store, req.Email, getFail).err = ErrNone
    THEN UserFailed(store, UErrExists)
    ELSE LET user == User(0, req.Name, req.Email, "", 0, 0, FALSE)
             c == UserRepoCreate(store, user, createFail)
         IN  IF c.err # ErrNone THEN UserFailed(store, c.err)
             ELSE UserResult(c.users, ErrNone, UserSanitize(c.user), NoToken,
                             <<>>)

\* userService.GetUsers
GetUsers(store, listFail) ==
    LET l == UserRepoList(store, listFail)
    IN  IF l.err # ErrNone THEN UserFailed(store, l.err)
        ELSE UserResult(store, ErrNone, NoUser, NoToken,
                        [i \in 1 .. Len(l.users) |-> UserSanitize(l.users[i])])

\* userService.UpdateUser
UpdateUser(store, id, req, getFail, saveFail) ==
    LET g == UserGetByID(store, id, getFail)
    IN  IF g.err # ErrNone THEN UserFailed(store, g.err)
        ELSE LET user == [g.user EXCEPT !.Name = req.Name,
                                        !.Email = req.Email]
                 u == UserRepoUpdate(store, user, saveFail)
             IN  IF u.err # ErrNone THEN UserFailed(store, u.err)
                 ELSE UserResult(u.users, ErrNone, UserSanitize(user), NoToken,
                                 <<>>)

\* userService.DeleteUser
DeleteUser(store, id, getFail, delFail) ==
    LET g == UserGetByID(store, id, getFail)
    IN  IF g.err # ErrNone THEN UserFailed(store, g.err)
        ELSE LET d == UserRepoDelete(store, id, delFail)
             IN  UserFailed(d.users, d.err)

\* the legacy AuthService reads and writes the users table itself and
\* returns the address of the row it has read or written
LegacyRegister(store, req, getFail, createFail) ==
    IF UserGetByEmail(store, req.Email, getFail).err = ErrNone
    THEN UserFailed(store, UErrExists)
    ELSE LET user == User(0, req.Name, req.Email, HashPassword(req.Password),
                          0, 0, FALSE)
             c == UserRepoCreate(store, user, createFail)
         IN  IF c.err # ErrNone THEN UserFailed(store, UErrCreate)
             ELSE UserResult(c.users, ErrNone, c.user,
                             GenerateJWT(c.user.ID, c.user.Email), <<>>)

LegacyLogin(store, req, getFail) ==
    LET g == UserGetByEmail(store, req.Email, getFail)
    IN  IF g.err # ErrNone THEN UserFailed(store, UErrLogin)
        ELSE IF ~CheckPasswordHash(req.Password, g.user.Password)
        THEN UserFailed(store, UErrLogin)
        ELSE UserResult(store, ErrNone, g.user,
                        GenerateJWT(g.user.ID, g.user.Email), <<>>)

LegacyGetUserByID(store, id, getFail) ==
    LET g == UserGetByID(store, id, getFail)
    IN  IF g.err # ErrNone THEN UserFailed(store, UErrNotFound)
        ELSE UserResult(store, ErrNone, g.user, NoToken, <<>>)

(***************************************************************************)
(* Go's int: two's-complement values of IntBits bits.  Arithmetic on int   *)
(* wraps around.  Row counts (int64 in the program) stay far below the     *)
(* int64 range, since they count the rows of one table, so arithmetic on   *)
(* them is exact.                                                          *)
(***************************************************************************)
Pow2(n) == IF n = 0 THEN 1 ELSE 2 ^ n

MaxInt == Pow2(IntBits - 1) - 1
MinInt == -Pow2(IntBits - 1)

Wrap(x) == ((x + Pow2(IntBits - 1)) % Pow2(IntBits)) - Pow2(IntBits - 1)

(***************************************************************************)
(* The pagination calculator (domain/pagination).                          *)
(***************************************************************************)
\* mutants of NewPaginationRequest: the upper limit taken as exclusive, and
\* the upper limit not checked at all
NewPaginationRequestExclusive(page, pageSize) ==
    [Page     |-> IF page < 1 THEN DefaultPage ELSE page,
     PageSize |-> IF pageSize < 1 \/ pageSize >= MaxPageSize
                  THEN DefaultPageSize ELSE pageSize]
NewPaginationRequestNoMax(page, pageSize) ==
    [Page     |-> IF page < 1 THEN DefaultPage ELSE page,
     PageSize |-> IF pageSize < 1 THEN DefaultPageSize ELSE pageSize]

NewPaginationRequest(page, pageSize) ==
    [Page     |-> IF page < 1 THEN DefaultPage ELSE page,
     PageSize |-> IF pageSize < 1 \/ pageSize > MaxPageSize
                  THEN DefaultPageSize ELSE pageSize]

GetOffset(p) == Wrap((p.Page - 1) * p.PageSize)

GetLimit(p) == p.PageSize

\* a *int is <<>> when nil and <<n>> when it points to n
PaginationResponse(page, pageSize, totalItems, totalPages, hasNextPage, hasPrevPage) ==
    [CurrentPage  |-> page,
     PageSize     |-> pageSize,
     TotalItems   |-> totalItems,
     TotalPages   |-> totalPages,
     HasNextPage  |-> hasNextPage,
     HasPrevPage  |-> hasPrevPage,
     NextPage     |-> IF hasNextPage THEN <<Wrap(page + 1)>> ELSE <<>>,
     PreviousPage |-> IF hasPrevPage THEN <<Wrap(page - 1)>> ELSE <<>>]

\* mutants of NewPaginationResponse: the page count rounded down, the page
\* count never below one, and the first page given a previous page
NewPaginationResponseFloor(page, pageSize, totalItems) ==
    LET totalPages == totalItems \div pageSize
    IN  PaginationResponse(page, pageSize, totalItems, totalPages,
                           page < totalPages, page > 1)
NewPaginationResponseAtLeastOne(page, pageSize, totalItems) ==
    LET totalPages == (totalItems \div pageSize) + 1
    IN  PaginationResponse(page, pageSize, totalItems, totalPages,
                           page < totalPages, page > 1)
NewPaginationResponsePrevFromOne(page, pageSize, totalItems) ==
    LET totalPages == (totalItems + pageSize - 1) \div pageSize
    IN  PaginationResponse(page, pageSize, totalItems, totalPages,
                           page < totalPages, page >= 1)

NewPaginationResponse(page, pageSize, totalItems) ==
    LET totalPages  == (totalItems + pageSize - 1) \div pageSize
        hasNextPage == page < totalPages
        hasPrevPage == page > 1
    IN  PaginationResponse(page, pageSize, totalItems, totalPages,
                           hasNextPage, hasPrevPage)

\* validator.ValidateStruct on a PaginationRequest: the struct tags
\* Page min=1 and PageSize min=1,max=100
ValidatePagination(p) == p.Page >= 1 /\ p.PageSize >= 1 /\ p.PageSize <= 100

(***************************************************************************)
(* The paginated repository queries.  A filter is the WHERE clause of a    *)
(* query; the default scope of the table adds "deleted_at IS NULL".        *)
(***************************************************************************)
FilterAll == [kind |-> "all", userID |-> 0, min |-> 0, max |-> 0]
FilterActive == [kind |-> "active", userID |-> 0, min |-> 0, max |-> 0]
FilterUser(u) == [kind |-> "user", userID |-> u, min |-> 0, max |-> 0]
FilterPrice(lo, hi) == [kind |-> "price", userID |-> 0, min |-> lo, max |-> hi]

Matches(m, f) ==
    /\ ~m.Deleted
    /\ CASE f.kind = "all"    -> TRUE
         [] f.kind = "active" -> m.IsActive
         [] f.kind = "user"   -> m.UserCreated = f.userID
         [] f.kind = "price"  -> m.Price >= f.min /\ m.Price <= f.max

MatchingIDs(store, f) == {i \in 1 .. Len(store) : Matches(store[i], f)}

\* db.Model(&Manga{}).Where(...).Count(&total)
Count(store, f) == Cardinality(MatchingIDs(store, f))

\* The queries give no ORDER BY, so the database returns the matching rows
\* in an order of its choosing: RowOrders is the set of those orders.
RowOrders(store, f) ==
    LET ids == MatchingIDs(store, f)
        n   == Cardinality(ids)
    IN  {o \in [1 .. n -> ids] : \A i, j \in 1 .. n : i # j => o[i] # o[j]}

\* Offset(offset).Limit(limit) of the query builder: OFFSET is part of the
\* query only when offset > 0, LIMIT only when limit >= 0
Window(rows, offset, limit) ==
    LET from == IF offset > 0 THEN offset ELSE 0
        rest == IF from >= Len(rows) THEN <<>>
                ELSE SubSeq(rows, from + 1, Len(rows))
    IN  IF limit >= 0 /\ limit < Len(rest) THEN SubSeq(rest, 1, limit)
        ELSE rest

\* ListPaginated, GetActiveMangasPaginated, GetMangasByUserIDPaginated and
\* GetMangasByPriceRangePaginated: count, then fetch the window.  order is
\* the order the database returns the matching rows in.
RepoPaginated(store, f, pagination, order, fail) ==
    IF fail = "read" THEN [mangas |-> <<>>, total |-> 0, err |-> ErrCount]
    ELSE LET total  == Count(store, f)
             offset == GetOffset(pagination)
             limit  == GetLimit(pagination)
         IN  IF fail = "write"
             THEN [mangas |-> <<>>, total |-> 0, err |-> ErrFind]
             ELSE [mangas |-> Window([i \in 1 .. Len(order) |-> store[order[i]]],
                                     offset, limit),
                   total |-> total, err |-> ErrNone]

NoPagination == NewPaginationResponse(0, 1, 0)

\* mangaService.Get...Paginated: sanitize the rows, build the metadata
ServicePaginated(store, f, pagination, order, fail) ==
    LET r == RepoPaginated(store, f, pagination, order, fail)
    IN  IF r.err # ErrNone
        THEN [Data |-> <<>>, Pagination |-> NoPagination, err |-> r.err]
        ELSE [Data |-> [i \in 1 .. Len(r.mangas) |-> Sanitize(r.mangas[i])],
              Pagination |-> NewPaginationResponse(pagination.Page,
                                                   pagination.PageSize, r.total),
              err |-> ErrNone]

(***************************************************************************)
(* The plain reads: mangaService.GetMangaByID and the four lists that      *)
(* return every matching row.                                              *)
(***************************************************************************)
GetMangaByID(store, id, fail) ==
    LET g == GetByID(store, id, fail)
    IN  IF g.err # ErrNone THEN [err |-> g.err, manga |-> NoManga]
        ELSE [err |-> ErrNone, manga |-> Sanitize(g.manga)]

ErrList(f) ==
    CASE f.kind = "all"    -> "failed to get mangas"
      [] f.kind = "active" -> "failed to get active mangas"
      [] f.kind = "user"   -> "failed to get user mangas"
      [] f.kind = "price"  -> "failed to get mangas by price range"

\* List, GetActiveMangas, GetByUserID and GetMangasByPriceRange of the
\* repository: Where(...).Find(&mangas), in the order the database picks
RepoList(store, f, order, fail) ==
    IF fail THEN [mangas |-> <<>>, err |-> ErrList(f)]
    ELSE [mangas |-> [i \in 1 .. Len(order) |-> store[order[i]]],
          err |-> ErrNone]

\* GetMangas, GetActiveMangas, GetMangasByUser and GetMangasByPriceRange of
\* the service: sanitize every row
ServiceList(store, f, order, fail) ==
    LET r == RepoList(store, f, order, fail)
    IN  IF r.err # ErrNone THEN [Data |-> <<>>, err |-> r.err]
        ELSE [Data |-> [i \in 1 .. Len(r.mangas) |-> Sanitize(r.mangas[i])],
              err |-> ErrNone]

(***************************************************************************)
(* Requests are processed one at a time: a step handles a request and      *)
(* leaves its response in resp, and Respond hands the response back        *)
(* before the next request is taken.                                       *)
(***************************************************************************)
NoResp == [op |-> "none"]

\* no request is between two of its store reads
NoPending == [op |-> "none"]

\* request bodies: two valid ones that differ in every field, one with an
\* empty name and one with a negative price
MangaRequests ==
    { [Name |-> "a", Price |-> 0,  IsActive |-> TRUE],
      [Name |-> "b", Price |-> 1,  IsActive |-> FALSE],
      [Name |-> "",  Price |-> 1,  IsActive |-> TRUE],
      [Name |-> "a", Price |-> -1, IsActive |-> FALSE] }

\* which database call of a request fails, if any: the first one (the read
\* of the row, the count) or the second one (the write, the fetch)
Failures == {"none", "read", "write"}

DoCreateManga ==
    /\ resp = NoResp
    /\ \E req \in MangaRequests, userID \in UserIDs, fail \in {"none", "write"} :
           LET r == CreateManga(mangas, req, userID, fail = "write")
           IN  /\ r.err = ErrNone => Len(mangas) < MaxMangas
               /\ mangas' = r.mangas
               /\ resp' = [op |-> "CreateManga", id |-> r.manga.ID, req |-> req,
                           userID |-> userID, err |-> r.err]
               /\ UNCHANGED <<calc, users, pending>>

DoUpdateManga ==
    /\ resp = NoResp
    /\ \E id \in MangaIDs, req \in MangaRequests, userID \in UserIDs,
          fail \in Failures :
           LET r == UpdateManga(mangas, id, req, userID,
                                fail = "read", fail = "write")
           IN  /\ mangas' = r.mangas
               /\ resp' = [op |-> "UpdateManga", id |-> id, req |-> req,
                           userID |-> userID, err |-> r.err]
               /\ UNCHANGED <<calc, users, pending>>

DoDeleteManga ==
    /\ resp = NoResp
    /\ \E id \in MangaIDs, userID \in UserIDs, fail \in Failures :
           LET r == DeleteManga(mangas, id, userID,
                                fail = "read", fail = "write")
           IN  /\ mangas' = r.mangas
               /\ resp' = [op |-> "DeleteManga", id |-> id,
                           userID |-> userID, err |-> r.err]
               /\ UNCHANGED <<calc, users, pending>>

\* the response of a plain read of the service
ReadResp(op, id, f, err, manga, data) ==
    [op |-> op, id |-> id, filter |-> f, err |-> err, manga |-> manga,
     data |-> data]

DoGetMangaByID ==
    /\ resp = NoResp
    /\ \E id \in MangaIDs, fail \in BOOLEAN :
           LET r == GetMangaByID(mangas, id, fail)
           IN  resp' = ReadResp("GetMangaByID", id, FilterAll, r.err, r.manga,
                                <<>>)
    /\ UNCHANGED <<mangas, calc, users, pending>>

\* one of the four lists, f being its WHERE clause
DoList(op, f) ==
    /\ resp = NoResp
    /\ \E order \in RowOrders(mangas, f), fail \in BOOLEAN :
           LET r == ServiceList(mangas, f, order, fail)
           IN  resp' = ReadResp(op, 0, f, r.err, NoManga, r.Data)
    /\ UNCHANGED <<mangas, calc, users, pending>>

DoGetMangas == DoList("GetMangas", FilterAll)

DoGetActiveMangas == DoList("GetActiveMangas", FilterActive)

DoGetMangasByUser ==
    \E userID \in UserIDs : DoList("GetMangasByUser", FilterUser(userID))

DoGetMangasByPriceRange ==
    \E min \in 0 .. 1, max \in 0 .. 1 :
        DoList("GetMangasByPriceRange", FilterPrice(min, max))

(***************************************************************************)
(* The paginated list handlers.  A query parameter is a string: ok says    *)
(* whether it parses as a number, val is the number.                       *)
(***************************************************************************)
QueryParams(S) == {[ok |-> TRUE, val |-> n] : n \in S} \cup {[ok |-> FALSE, val |-> 0]}

\* strconv.Atoi with the error dropped: 0 when the string is no number
Atoi(q) == IF q.ok THEN q.val ELSE 0

StatusOK == 200
StatusCreated == 201
StatusBadRequest == 400
StatusUnauthorized == 401
StatusForbidden == 403
StatusNotFound == 404
StatusInternalServerError == 500

(***************************************************************************)
(* The response package.  Data and Error of the envelope are interface     *)
(* values: <<>> when nil and <<v>> when they hold v; Message is "" when    *)
(* the caller gives none.  status is the status the response is sent       *)
(* with.                                                                   *)
(***************************************************************************)
APIResponse(status, success, message, data, error) ==
    [status |-> status, Success |-> success, Message |-> message,
     Data |-> data, Error |-> error]

\* response.Success: the status of the context is left at its default
Success(data, message) == APIResponse(StatusOK, TRUE, message, data, <<>>)

\* response.Created
Created(data, message) == APIResponse(StatusCreated, TRUE, message, data, <<>>)

ErrorStatusDropped(statusCode, error, message) ==
    APIResponse(StatusOK, FALSE, message, <<>>, <<error>>)

\* response.Error
Error(statusCode, error, message) ==
    APIResponse(statusCode, FALSE, message, <<>>, <<error>>)

MsgInvalidPagination == "Invalid pagination parameters"

\* the errors of strconv and the body parser, and those of the validator
ErrParse == "parse error"
ErrValidation == "validation error"

\* the names of the query parameters that do not parse as numbers
Malformed(pageQ, sizeQ, minQ, maxQ) ==
    {n \in {"page", "page_size", "min", "max"} :
        \/ n = "page" /\ ~pageQ.ok
        \/ n = "page_size" /\ ~sizeQ.ok
        \/ n = "min" /\ ~minQ.ok
        \/ n = "max" /\ ~maxQ.ok}

\* a parameter the handler does not read
Unread == [ok |-> TRUE, val |-> 0]

\* the response of a list handler: what it was asked, the PaginationRequest
\* it built, the result of the service and the envelope it answers with
ListResp(op, f, malformed, page, pageSize, pagination, result, reply) ==
    [op |-> op, filter |-> f, malformed |-> malformed,
     page |-> page, pageSize |-> pageSize,
     status |-> reply.status, message |-> reply.Message, request |-> pagination,
     data |-> result.Data, pagination |-> result.Pagination, reply |-> reply]

NoResult == [Data |-> <<>>, Pagination |-> NoPagination, err |-> ErrNone]

\* the part the four handlers share: parse page and page_size, build and
\* validate the PaginationRequest, call the service, map the outcome
PaginatedHandler(op, store, f, pageQ, sizeQ, order, fail) ==
    LET page       == Atoi(pageQ)
        pageSize   == Atoi(sizeQ)
        pagination == NewPaginationRequest(page, pageSize)
        malformed  == Malformed(pageQ, sizeQ, Unread, Unread)
    IN  IF ~ValidatePagination(pagination)
        THEN ListResp(op, f, malformed, page, pageSize, pagination, NoResult,
                      Error(StatusBadRequest, ErrValidation,
                            MsgInvalidPagination))
        ELSE LET result == ServicePaginated(store, f, pagination, order, fail)
             IN  IF result.err # ErrNone
                 THEN ListResp(op, f, malformed, page, pageSize, pagination,
                               NoResult,
                               Error(StatusInternalServerError, result.err,
                                     "Failed to get paginated mangas"))
                 ELSE ListResp(op, f, malformed, page, pageSize, pagination,
                               result,
                               Success(<<[Data |-> result.Data,
                                          Pagination |-> result.Pagination]>>,
                                       "Paginated mangas retrieved successfully"))

\* a request rejected before pagination is looked at
Rejected(op, f, malformed, message) ==
    ListResp(op, f, malformed, 0, 0, NewPaginationRequest(0, 0), NoResult,
             Error(StatusBadRequest, ErrParse, message))

\* page numbers up to one past the last page of a full table, and two huge
\* ones; page sizes up to the table's size, 4 and one past the maximum
ListPages == QueryParams((0 .. (MaxMangas + 1)) \cup {MaxInt, Pow2(IntBits - 2) + 1})
ListSizes == QueryParams((0 .. MaxMangas) \cup {4, MaxPageSize + 1})
ListPrices == QueryParams(0 .. 1)

GetMangasPaginatedOn(pages, sizes) ==
    /\ resp = NoResp
    /\ \E pageQ \in pages, sizeQ \in sizes, fail \in Failures,
          order \in RowOrders(mangas, FilterAll) :
           /\ resp' = PaginatedHandler("GetMangasPaginated", mangas, FilterAll,
                                       pageQ, sizeQ, order, fail)
           /\ UNCHANGED <<mangas, calc, users, pending>>

GetMangasPaginated == GetMangasPaginatedOn(ListPages, ListSizes)

GetActiveMangasPaginatedOn(pages, sizes) ==
    /\ resp = NoResp
    /\ \E pageQ \in pages, sizeQ \in sizes, fail \in Failures,
          order \in RowOrders(mangas, FilterActive) :
           /\ resp' = PaginatedHandler("GetActiveMangasPaginated", mangas,
                                       FilterActive, pageQ, sizeQ, order, fail)
           /\ UNCHANGED <<mangas, calc, users, pending>>

GetActiveMangasPaginated == GetActiveMangasPaginatedOn(ListPages, ListSizes)

GetMangasByUserPaginatedOn(pages, sizes) ==
    /\ resp = NoResp
    /\ \E userQ \in QueryParams(UserIDs), pageQ \in pages,
          sizeQ \in sizes, fail \in Failures :
           \E order \in RowOrders(mangas, FilterUser(userQ.val)) :
               /\ resp' = IF ~userQ.ok
                          THEN Rejected("GetMangasByUserPaginated",
                                        FilterUser(0),
                                        Malformed(pageQ, sizeQ, Unread, Unread),
                                        "Invalid user ID")
                          ELSE PaginatedHandler("GetMangasByUserPaginated", mangas,
                                                FilterUser(userQ.val),
                                                pageQ, sizeQ, order, fail)
               /\ UNCHANGED <<mangas, calc, users, pending>>

GetMangasByUserPaginated == GetMangasByUserPaginatedOn(ListPages, ListSizes)

GetMangasByPriceRangePaginatedOn(pages, sizes) ==
    /\ resp = NoResp
    /\ \E minQ \in ListPrices, maxQ \in ListPrices, pageQ \in pages,
          sizeQ \in sizes, fail \in Failures :
           \E order \in RowOrders(mangas, FilterPrice(minQ.val, maxQ.val)) :
               /\ resp' = IF ~minQ.ok
                          THEN Rejected("GetMangasByPriceRangePaginated",
                                        FilterPrice(0, 0),
                                        Malformed(pageQ, sizeQ, minQ, maxQ),
                                        "Invalid min price")
                          ELSE IF ~maxQ.ok
                          THEN Rejected("GetMangasByPriceRangePaginated",
                                        FilterPrice(0, 0),
                                        Malformed(pageQ, sizeQ, minQ, maxQ),
                                        "Invalid max price")
                          ELSE PaginatedHandler("GetMangasByPriceRangePaginated",
                                                mangas,
                                                FilterPrice(minQ.val, maxQ.val),
                                                pageQ, sizeQ, order, fail)
               /\ UNCHANGED <<mangas, calc, users, pending>>

GetMangasByPriceRangePaginated == GetMangasByPriceRangePaginatedOn(ListPages, ListSizes)

\* MangaHandler.GetMangasByPriceRange: the list without pagination
HandleGetMangasByPriceRange(store, minQ, maxQ, order, fail) ==
    LET f         == FilterPrice(minQ.val, maxQ.val)
        malformed == Malformed(Unread, Unread, minQ, maxQ)
        plain(data, reply) ==
            ListResp("GetMangasByPriceRange", f, malformed, 0, 0,
                     NewPaginationRequest(0, 0),
                     [Data |-> data, Pagination |-> NoPagination], reply)
    IN  IF ~minQ.ok
        THEN Rejected("GetMangasByPriceRange", FilterPrice(0, 0), malformed,
                      "Invalid min price")
        ELSE IF ~maxQ.ok
        THEN Rejected("GetMangasByPriceRange", FilterPrice(0, 0), malformed,
                      "Invalid max price")
        ELSE LET r == ServiceList(store, f, order, fail)
             IN  IF r.err # ErrNone
                 THEN plain(<<>>,
                            Error(StatusInternalServerError, r.err,
                                  "Failed to get mangas by price range"))
                 ELSE plain(r.Data,
                            Success(<<r.Data>>,
                                    "Mangas by price range retrieved successfully"))

GetMangasByPriceRange ==
    /\ resp = NoResp
    /\ \E minQ \in ListPrices, maxQ \in ListPrices, fail \in BOOLEAN :
           \E order \in RowOrders(mangas, FilterPrice(minQ.val, maxQ.val)) :
               resp' = HandleGetMangasByPriceRange(mangas, minQ, maxQ, order,
                                                   fail)
    /\ UNCHANGED <<mangas, calc, users, pending>>

Respond ==
    /\ resp # NoResp
    /\ resp' = NoResp
    /\ UNCHANGED <<mangas, calc, users, pending>>

(***************************************************************************)
(* The pagination calculator on its own: calc holds the inputs and, stage  *)
(* by stage, what the calculator made of them.                             *)
(***************************************************************************)
HugePages == {MaxInt, Pow2(IntBits - 2) + 1, MinInt}
PageInputs == (-1 .. MaxSmallPage) \cup HugePages
SizeInputs == (-1 .. MaxSmallSize) \cup {DefaultPageSize}
              \cup ((MaxPageSize - 1) .. (MaxPageSize + 1))
TotalInputs == (0 .. MaxTotal)
               \cup ((MaxPageSize - 1) .. (MaxPageSize + 1))
               \cup {2 * MaxPageSize, 2 * MaxPageSize + 1}

CalcInput(page, pageSize, totalItems) ==
    [stage |-> "input", page |-> page, pageSize |-> pageSize,
     totalItems |-> totalItems,
     request |-> [Page |-> 0, PageSize |-> 0], valid |-> FALSE,
     offset |-> 0, limit |-> 0, response |-> NoPagination]

NoCalc == [CalcInput(0, 0, 0) EXCEPT !.stage = "none"]

ApplyNewPaginationRequest ==
    /\ calc.stage = "input"
    /\ LET p == NewPaginationRequest(calc.page, calc.pageSize)
       IN  calc' = [calc EXCEPT !.stage = "request", !.request = p,
                                !.valid = ValidatePagination(p)]
    /\ UNCHANGED <<mangas, resp, users, pending>>

ApplyGetOffset ==
    /\ calc.stage = "request"
    /\ calc' = [calc EXCEPT !.stage = "window",
                            !.offset = GetOffset(calc.request),
                            !.limit = GetLimit(calc.request)]
    /\ UNCHANGED <<mangas, resp, users, pending>>

ApplyNewPaginationResponse ==
    /\ calc.stage = "window"
    /\ calc' = [calc EXCEPT !.stage = "response",
                            !.response = NewPaginationResponse(
                                calc.request.Page, calc.request.PageSize,
                                calc.totalItems)]
    /\ UNCHANGED <<mangas, resp, users, pending>>

InitPagination ==
    /\ mangas = <<>>
    /\ resp = NoResp
    /\ users = <<>>
    /\ pending = NoPending
    /\ calc \in {CalcInput(page, pageSize, totalItems) :
                    page \in PageInputs, pageSize \in SizeInputs,
                    totalItems \in TotalInputs}

NextPagination ==
    \/ ApplyNewPaginationRequest
    \/ ApplyGetOffset
    \/ ApplyNewPaginationResponse

SpecPagination == InitPagination /\ [][NextPagination]_vars

(***************************************************************************)
(* The manga handlers that take one item: POST /mangas, GET /mangas/:id,   *)
(* PUT /mangas/:id and DELETE /mangas/:id.  The routes that write are      *)
(* behind the authentication middleware, which sets userID to the ID of    *)
(* an existing user.  A body is a string: ok says whether it parses, val   *)
(* is the request it parses to.                                            *)
(***************************************************************************)
NoMangaRequest == [Name |-> "", Price |-> 0, IsActive |-> FALSE]

\* a handler that takes no ID / no body
NoParam == [ok |-> FALSE, val |-> 0]
NoBody == [ok |-> FALSE, val |-> NoMangaRequest]

MangaBodies ==
    {[ok |-> TRUE, val |-> r] :
        r \in MangaRequests \cup {[Name |-> "a", Price |-> 2, IsActive |-> TRUE]}}
    \cup {[ok |-> FALSE, val |-> NoMangaRequest]}

\* validator.ValidateStruct on CreateMangaRequest / UpdateMangaRequest:
\* Name is "required", Price is "required,min=0"; "required" rejects the
\* zero value of the field's type
ValidateStruct(req) ==
    /\ req.Name # ""
    /\ req.Price # 0
    /\ req.Price >= 0

\* the response of a handler: what it was asked, the error it answers
\* ("" when none) and the envelope it answers with
HTTPResp(op, idQ, body, userID, err, reply) ==
    [op |-> op, id |-> idQ, body |-> body, userID |-> userID,
     status |-> reply.status, message |-> reply.Message, err |-> err,
     reply |-> reply]

\* MangaHandler.CreateManga
HandleCreateManga(store, body, userID, fail) ==
    IF ~body.ok
    THEN [mangas |-> store,
          resp |-> HTTPResp("CreateManga", NoParam, body, userID, ErrParse,
                            Error(StatusBadRequest, ErrParse,
                                  "Invalid request body"))]
    ELSE IF ~ValidateStruct(body.val)
    THEN [mangas |-> store,
          resp |-> HTTPResp("CreateManga", NoParam, body, userID, ErrValidation,
                            Error(StatusBadRequest, ErrValidation,
                                  "Validation failed"))]
    ELSE LET r == CreateManga(store, body.val, userID, fail)
         IN  [mangas |-> r.mangas,
              resp |-> IF r.err # ErrNone
                       THEN HTTPResp("CreateManga", NoParam, body, userID, r.err,
                                     Error(StatusInternalServerError, r.err,
                                           "Failed to create manga"))
                       ELSE HTTPResp("CreateManga", NoParam, body, userID,
                                     ErrNone,
                                     Created(<<r.manga>>,
                                             "Manga created successfully"))]

\* MangaHandler.GetManga
HandleGetManga(store, idQ, fail) ==
    IF ~idQ.ok
    THEN HTTPResp("GetManga", idQ, NoBody, 0, ErrParse,
                  Error(StatusBadRequest, ErrParse, "Invalid manga ID"))
    ELSE LET r == GetMangaByID(store, idQ.val, fail)
         IN  IF r.err # ErrNone
             THEN HTTPResp("GetManga", idQ, NoBody, 0, r.err,
                           Error(StatusNotFound, r.err, "Manga not found"))
             ELSE HTTPResp("GetManga", idQ, NoBody, 0, ErrNone,
                           Success(<<r.manga>>, "Manga retrieved successfully"))

\* MangaHandler.UpdateManga
HandleUpdateManga(store, idQ, body, userID, getFail, saveFail) ==
    IF ~idQ.ok
    THEN [mangas |-> store,
          resp |-> HTTPResp("UpdateManga", idQ, body, userID, ErrParse,
                            Error(StatusBadRequest, ErrParse,
                                  "Invalid manga ID"))]
    ELSE IF ~body.ok
    THEN [mangas |-> store,
          resp |-> HTTPResp("UpdateManga", idQ, body, userID, ErrParse,
                            Error(StatusBadRequest, ErrParse,
                                  "Invalid request body"))]
    ELSE IF ~ValidateStruct(body.val)
    THEN [mangas |-> store,
          resp |-> HTTPResp("UpdateManga", idQ, body, userID, ErrValidation,
                            Error(StatusBadRequest, ErrValidation,
                                  "Validation failed"))]
    ELSE LET r == UpdateManga(store, idQ.val, body.val, userID, getFail, saveFail)
         IN  [mangas |-> r.mangas,
              resp |-> IF r.err # ErrNone
                       THEN HTTPResp("UpdateManga", idQ, body, userID, r.err,
                                     Error(StatusForbidden, r.err,
                                           "Failed to update manga"))
                       ELSE HTTPResp("UpdateManga", idQ, body, userID, ErrNone,
                                     Success(<<r.manga>>,
                                             "Manga updated successfully"))]

\* MangaHandler.DeleteManga
HandleDeleteManga(store, idQ, userID, getFail, delFail) ==
    IF ~idQ.ok
    THEN [mangas |-> store,
          resp |-> HTTPResp("DeleteManga", idQ, NoBody, userID, ErrParse,
                            Error(StatusBadRequest, ErrParse,
                                  "Invalid manga ID"))]
    ELSE LET r == DeleteManga(store, idQ.val, userID, getFail, delFail)
         IN  [mangas |-> r.mangas,
              resp |-> IF r.err # ErrNone
                       THEN HTTPResp("DeleteManga", idQ, NoBody, userID, r.err,
                                     Error(StatusForbidden, r.err,
                                           "Failed to delete manga"))
                       ELSE HTTPResp("DeleteManga", idQ, NoBody, userID,
                                     ErrNone,
                                     Success(<<"Manga deleted successfully">>,
                                             "Manga deleted successfully"))]

\* the acting users the middleware lets through
ActingUsers == 1 .. MaxUser

PostManga ==
    /\ resp = NoResp
    /\ \E body \in MangaBodies, userID \in ActingUsers, fail \in BOOLEAN :
           LET r == HandleCreateManga(mangas, body, userID, fail)
           IN  /\ Len(r.mangas) <= MaxMangas
               /\ mangas' = r.mangas
               /\ resp' = r.resp
    /\ UNCHANGED <<calc, users, pending>>

GetManga ==
    /\ resp = NoResp
    /\ \E idQ \in QueryParams(MangaIDs), fail \in BOOLEAN :
           resp' = HandleGetManga(mangas, idQ, fail)
    /\ UNCHANGED <<mangas, calc, users, pending>>

PutManga ==
    /\ resp = NoResp
    /\ \E idQ \in QueryParams(MangaIDs), body \in MangaBodies,
          userID \in ActingUsers, fail \in Failures :
           LET r == HandleUpdateManga(mangas, idQ, body, userID,
                                      fail = "read", fail = "write")
           IN  /\ mangas' = r.mangas
               /\ resp' = r.resp
    /\ UNCHANGED <<calc, users, pending>>

DeleteMangaRequest ==
    /\ resp = NoResp
    /\ \E idQ \in QueryParams(MangaIDs), userID \in ActingUsers,
          fail \in Failures :
           LET r == HandleDeleteManga(mangas, idQ, userID,
                                      fail = "read", fail = "write")
           IN  /\ mangas' = r.mangas
               /\ resp' = r.resp
    /\ UNCHANGED <<calc, users, pending>>

InitHTTP ==
    /\ mangas = <<>>
    /\ resp = NoResp
    /\ calc = NoCalc
    /\ users = <<>>
    /\ pending = NoPending

NextHTTP ==
    \/ PostManga
    \/ GetManga
    \/ PutManga
    \/ DeleteMangaRequest
    \/ Respond

SpecHTTP == InitHTTP /\ [][NextHTTP]_vars

(***************************************************************************)
(* A paginated list next to the writes of other requests.  The repository  *)
(* counts and fetches in two queries with no transaction around them:      *)
(* pending holds the request between the two, with the total its count     *)
(* gave, and written tells whether another request has written the table   *)
(* since the count.                                                        *)
(***************************************************************************)
RepoCountStepUnscoped(store, f, fail) ==
    IF fail THEN [err |-> ErrCount, total |-> 0]
    ELSE [err |-> ErrNone, total |-> Len(store)]

\* db.Model(&Manga{}).Where(...).Count(&total)
RepoCountStep(store, f, fail) ==
    IF fail THEN [err |-> ErrCount, total |-> 0]
    ELSE [err |-> ErrNone, total |-> Count(store, f)]

\* db.Where(...).Offset(offset).Limit(limit).Find(&mangas)
RepoFetchStep(store, f, pagination, order, fail) ==
    IF fail THEN [err |-> ErrFind, mangas |-> <<>>]
    ELSE [err |-> ErrNone,
          mangas |-> Window([i \in 1 .. Len(order) |-> store[order[i]]],
                            GetOffset(pagination), GetLimit(pagination))]

Pending(stage, f, pagination, total, written, result) ==
    [op |-> "ListPaginated", stage |-> stage, filter |-> f,
     request |-> pagination, total |-> total, written |-> written,
     err |-> result.err, data |-> result.Data,
     pagination |-> result.Pagination]

\* the first query of the list: the count
CountStep ==
    /\ pending = NoPending
    /\ \E f \in {FilterAll, FilterActive}, page \in 1 .. 2, pageSize \in 1 .. 2,
          fail \in BOOLEAN :
           LET c == RepoCountStep(mangas, f, fail)
               p == NewPaginationRequest(page, pageSize)
           IN  pending' =
                 IF c.err # ErrNone
                 THEN Pending("returned", f, p, 0, FALSE,
                              [NoResult EXCEPT !.err = c.err])
                 ELSE Pending("counted", f, p, c.total, FALSE, NoResult)
    /\ UNCHANGED <<mangas, resp, calc, users>>

\* the second query, and what the service makes of the two
FetchStep ==
    /\ pending.op = "ListPaginated"
    /\ pending.stage = "counted"
    /\ \E order \in RowOrders(mangas, pending.filter), fail \in BOOLEAN :
           LET r == RepoFetchStep(mangas, pending.filter, pending.request,
                                  order, fail)
           IN  pending' =
                 IF r.err # ErrNone
                 THEN [pending EXCEPT !.stage = "returned", !.err = r.err]
                 ELSE [pending EXCEPT
                         !.stage = "returned",
                         !.data = [i \in 1 .. Len(r.mangas) |->
                                      Sanitize(r.mangas[i])],
                         !.pagination = NewPaginationResponse(
                             pending.request.Page, pending.request.PageSize,
                             pending.total)]
    /\ UNCHANGED <<mangas, resp, calc, users>>

ReturnPage ==
    /\ pending.op = "ListPaginated"
    /\ pending.stage = "returned"
    /\ pending' = NoPending
    /\ UNCHANGED <<mangas, resp, calc, users>>

\* a list between its two queries has seen the table written
NoteWrite(changed) ==
    pending' = IF changed /\ pending.op = "ListPaginated"
                          /\ pending.stage = "counted"
               THEN [pending EXCEPT !.written = TRUE]
               ELSE pending

\* CreateManga of another request
OtherCreateManga ==
    /\ Len(mangas) < MaxMangas
    /\ \E req \in MangaRequests, userID \in ActingUsers :
           LET r == CreateManga(mangas, req, userID, FALSE)
           IN  /\ mangas' = r.mangas
               /\ NoteWrite(r.mangas # mangas)
    /\ UNCHANGED <<resp, calc, users>>

\* DeleteManga of another request
OtherDeleteManga ==
    /\ \E id \in MangaIDs, userID \in ActingUsers :
           LET r == DeleteManga(mangas, id, userID, FALSE, FALSE)
           IN  /\ mangas' = r.mangas
               /\ NoteWrite(r.mangas # mangas)
    /\ UNCHANGED <<resp, calc, users>>

InitRace ==
    /\ mangas = <<>>
    /\ resp = NoResp
    /\ calc = NoCalc
    /\ users = <<>>
    /\ pending = NoPending

NextRace ==
    \/ CountStep
    \/ FetchStep
    \/ ReturnPage
    \/ OtherCreateManga
    \/ OtherDeleteManga

SpecRace == InitRace /\ [][NextRace]_vars

(***************************************************************************)
(* The user and authentication services, called one after the other        *)
(* against the users table.                                                *)
(***************************************************************************)
\* request bodies: two that differ in every field, one with an empty name
\* and one with the first one's email and another password
UserRequests ==
    { [Name |-> "a", Email |-> "x", Password |-> "p"],
      [Name |-> "b", Email |-> "y", Password |-> "q"],
      [Name |-> "",  Email |-> "x", Password |-> "p"],
      [Name |-> "a", Email |-> "x", Password |-> "q"] }

NoUserRequest == [Name |-> "", Email |-> "", Password |-> ""]

\* the unique index lets the table hold one row for each email
UserKeys == 0 .. (Cardinality({r.Email : r \in UserRequests}) + 1)

Tokens == {[ok |-> ok, UserID |-> id, Email |-> "x"] :
              ok \in BOOLEAN, id \in UserKeys}

UserResp(op, id, req, token, r) ==
    [op |-> op, id |-> id, req |-> req, arg |-> token, err |-> r.err,
     user |-> r.user, token |-> r.token, list |-> r.list]

DoRegister ==
    /\ resp = NoResp
    /\ \E req \in UserRequests, fail \in Failures :
           LET r == Register(users, req, fail = "read", fail = "write")
           IN  /\ users' = r.users
               /\ resp' = UserResp("Register", 0, req, NoToken, r)
    /\ UNCHANGED <<mangas, calc, pending>>

DoLogin ==
    /\ resp = NoResp
    /\ \E req \in UserRequests, fail \in Failures :
           LET r == Login(users, req, fail = "read")
           IN  /\ users' = r.users
               /\ resp' = UserResp("Login", 0, req, NoToken, r)
    /\ UNCHANGED <<mangas, calc, pending>>

DoGetUserByID ==
    /\ resp = NoResp
    /\ \E id \in UserKeys, fail \in Failures :
           LET r == GetUserByID(users, id, fail = "read")
           IN  /\ users' = r.users
               /\ resp' = UserResp("GetUserByID", id, NoUserRequest, NoToken, r)
    /\ UNCHANGED <<mangas, calc, pending>>

DoValidateToken ==
    /\ resp = NoResp
    /\ \E token \in Tokens, fail \in Failures :
           LET r == ValidateToken(users, token, fail = "read")
           IN  /\ users' = r.users
               /\ resp' = UserResp("ValidateToken", 0, NoUserRequest, token, r)
    /\ UNCHANGED <<mangas, calc, pending>>

DoCreateUser ==
    /\ resp = NoResp
    /\ \E req \in UserRequests, fail \in Failures :
           LET r == CreateUser(users, req, fail = "read", fail = "write")
           IN  /\ users' = r.users
               /\ resp' = UserResp("CreateUser", 0, req, NoToken, r)
    /\ UNCHANGED <<mangas, calc, pending>>

DoGetUsers ==
    /\ resp = NoResp
    /\ \E fail \in Failures :
           LET r == GetUsers(users, fail = "read")
           IN  /\ users' = r.users
               /\ resp' = UserResp("GetUsers", 0, NoUserRequest, NoToken, r)
    /\ UNCHANGED <<mangas, calc, pending>>

DoUpdateUser ==
    /\ resp = NoResp
    /\ \E id \in UserKeys, req \in UserRequests, fail \in Failures :
           LET r == UpdateUser(users, id, req, fail = "read", fail = "write")
           IN  /\ users' = r.users
               /\ resp' = UserResp("UpdateUser", id, req, NoToken, r)
    /\ UNCHANGED <<mangas, calc, pending>>

DoDeleteUser ==
    /\ resp = NoResp
    /\ \E id \in UserKeys, fail \in Failures :
           LET r == DeleteUser(users, id, fail = "read", fail = "write")
           IN  /\ users' = r.users
               /\ resp' = UserResp("DeleteUser", id, NoUserRequest, NoToken, r)
    /\ UNCHANGED <<mangas, calc, pending>>

DoLegacyRegister ==
    /\ resp = NoResp
    /\ \E req \in UserRequests, fail \in Failures :
           LET r == LegacyRegister(users, req, fail = "read", fail = "write")
           IN  /\ users' = r.users
               /\ resp' = UserResp("LegacyRegister", 0, req, NoToken, r)
    /\ UNCHANGED <<mangas, calc, pending>>

DoLegacyLogin ==
    /\ resp = NoResp
    /\ \E req \in UserRequests, fail \in Failures :
           LET r == LegacyLogin(users, req, fail = "read")
           IN  /\ users' = r.users
               /\ resp' = UserResp("LegacyLogin", 0, req, NoToken, r)
    /\ UNCHANGED <<mangas, calc, pending>>

DoLegacyGetUserByID ==
    /\ resp = NoResp
    /\ \E id \in UserKeys, fail \in Failures :
           LET r == LegacyGetUserByID(users, id, fail = "read")
           IN  /\ users' = r.users
               /\ resp' = UserResp("LegacyGetUserByID", id, NoUserRequest,
                                   NoToken, r)
    /\ UNCHANGED <<mangas, calc, pending>>

NextUser ==
    \/ DoRegister
    \/ DoLogin
    \/ DoGetUserByID
    \/ DoValidateToken
    \/ DoCreateUser
    \/ DoGetUsers
    \/ DoUpdateUser
    \/ DoDeleteUser
    \/ DoLegacyRegister
    \/ DoLegacyLogin
    \/ DoLegacyGetUserByID
    \/ Respond

InitUser ==
    /\ mangas = <<>>
    /\ resp = NoResp
    /\ calc = NoCalc
    /\ users = <<>>
    /\ pending = NoPending

SpecUser == InitUser /\ [][NextUser]_vars

(***************************************************************************)
(* The entity sanitizers on their own: calc holds the entity given         *)
(* (input), the entity the receiver points at after the calls (receiver),  *)
(* the result of Sanitize (once) and the result of Sanitize on that        *)
(* result (twice).                                                         *)
(***************************************************************************)
Times == 0 .. MaxTime

UserInputs ==
    {User(id, name, email, password, createdAt, updatedAt, deleted) :
        id \in UserIDs, name \in {"", "a"}, email \in {"", "x"},
        password \in {"", "h"}, createdAt \in Times, updatedAt \in Times,
        deleted \in BOOLEAN}

MangaInputs ==
    {Manga(id, name, price, active, owner, deleted) :
        id \in 0 .. 1, name \in {"", "a"}, price \in -1 .. 1,
        active \in BOOLEAN, owner \in UserIDs, deleted \in BOOLEAN}

EntityInput(kind, e) ==
    [stage |-> "input", kind |-> kind, input |-> e, receiver |-> e,
     once |-> e, twice |-> e]

UserSanitizeCallInPlace(u) ==
    [receiver |-> UserSanitize(u), result |-> UserSanitize(u)]

\* u.Sanitize(): builds a new User and returns its address; the User the
\* receiver points at is only read
UserSanitizeCall(u) == [receiver |-> u, result |-> UserSanitize(u)]

\* m.Sanitize(): builds a new Manga, the receiver is only read
MangaSanitizeCall(m) == [receiver |-> m, result |-> Sanitize(m)]

SanitizeCall(kind, e) ==
    IF kind = "user" THEN UserSanitizeCall(e) ELSE MangaSanitizeCall(e)

ApplySanitize ==
    /\ calc.stage = "input"
    /\ LET c == SanitizeCall(calc.kind, calc.receiver)
       IN  calc' = [calc EXCEPT !.stage = "once", !.receiver = c.receiver,
                                !.once = c.result]
    /\ UNCHANGED <<mangas, resp, users, pending>>

ApplySanitizeAgain ==
    /\ calc.stage = "once"
    /\ LET c == SanitizeCall(calc.kind, calc.once)
       IN  calc' = [calc EXCEPT !.stage = "twice", !.once = c.receiver,
                                !.twice = c.result]
    /\ UNCHANGED <<mangas, resp, users, pending>>

InitSanitize ==
    /\ mangas = <<>>
    /\ resp = NoResp
    /\ users = <<>>
    /\ pending = NoPending
    /\ calc \in {EntityInput("user", u) : u \in UserInputs}
                \cup {EntityInput("manga", m) : m \in MangaInputs}

NextSanitize ==
    \/ ApplySanitize
    \/ ApplySanitizeAgain

SpecSanitize == InitSanitize /\ [][NextSanitize]_vars

(***************************************************************************)
(* The routes under /api/v1: the authentication middleware in front of     *)
(* the routes that write and of /auth/me, the auth and user handlers, and  *)
(* the manga handlers, against the users and mangas tables.                *)
(***************************************************************************)
\* validator.ParseAndValidate on RegisterRequest: Name "required", Email
\* "required,email", Password "required,min=6"; "e" stands for a string that
\* is no email address and "s" for a password of fewer than 6 characters
NotEmails == {"", "e"}
ShortPasswords == {"", "s"}

ValidateRegisterRequest(req) ==
    /\ req.Name # ""
    /\ req.Email \notin NotEmails
    /\ req.Password \notin ShortPasswords

\* LoginRequest: Email "required,email", Password "required,min=6"
ValidateLoginRequest(req) ==
    /\ req.Email \notin NotEmails
    /\ req.Password \notin ShortPasswords

\* CreateUserRequest: Name "required", Email "required,email"
ValidateCreateUserRequest(req) ==
    /\ req.Name # ""
    /\ req.Email \notin NotEmails

\* AuthHandler.Register
HandleRegister(store, body, getFail, createFail) ==
    IF ~body.ok
    THEN [users |-> store,
          resp |-> HTTPResp("Register", NoParam, body, 0, ErrParse,
                            Error(StatusBadRequest, "Invalid JSON format", ""))]
    ELSE IF ~ValidateRegisterRequest(body.val)
    THEN [users |-> store,
          resp |-> HTTPResp("Register", NoParam, body, 0, ErrValidation,
                            Error(StatusBadRequest, ErrValidation, ""))]
    ELSE LET r == Register(store, body.val, getFail, createFail)
         IN  [users |-> r.users,
              resp |-> IF r.err # ErrNone
                       THEN HTTPResp("Register", NoParam, body, 0, r.err,
                                     Error(StatusBadRequest, r.err, ""))
                       ELSE HTTPResp("Register", NoParam, body, 0, ErrNone,
                                     Created(<<[Token |-> r.token,
                                                User |-> r.user]>>,
                                             "User registered successfully"))]

\* AuthHandler.Login
HandleLogin(store, body, getFail) ==
    IF ~body.ok
    THEN HTTPResp("Login", NoParam, body, 0, ErrParse,
                  Error(StatusBadRequest, "Invalid JSON format", ""))
    ELSE IF ~ValidateLoginRequest(body.val)
    THEN HTTPResp("Login", NoParam, body, 0, ErrValidation,
                  Error(StatusBadRequest, ErrValidation, ""))
    ELSE LET r == Login(store, body.val, getFail)
         IN  IF r.err # ErrNone
             THEN HTTPResp("Login", NoParam, body, 0, r.err,
                           Error(StatusUnauthorized, r.err, ""))
             ELSE HTTPResp("Login", NoParam, body, 0, ErrNone,
                           Success(<<[Token |-> r.token, User |-> r.user]>>,
                                   "Login successful"))

\* AuthHandler.GetMe: userID is the one the middleware left in the context
HandleGetMe(store, userID, getFail) ==
    LET r == GetUserByID(store, userID, getFail)
    IN  IF r.err # ErrNone
        THEN HTTPResp("GetMe", NoParam, NoBody, userID, r.err,
                      Error(StatusInternalServerError, r.err, ""))
        ELSE HTTPResp("GetMe", NoParam, NoBody, userID, ErrNone,
                      Success(<<r.user>>,
                              "User information retrieved successfully"))

\* UserHandler.CreateUser
HandleCreateUser(store, body, userID, getFail, createFail) ==
    IF ~body.ok
    THEN [users |-> store,
          resp |-> HTTPResp("CreateUser", NoParam, body, userID, ErrParse,
                            Error(StatusBadRequest, "Invalid JSON format", ""))]
    ELSE IF ~ValidateCreateUserRequest(body.val)
    THEN [users |-> store,
          resp |-> HTTPResp("CreateUser", NoParam, body, userID, ErrValidation,
                            Error(StatusBadRequest, ErrValidation, ""))]
    ELSE LET r == CreateUser(store, body.val, getFail, createFail)
         IN  [users |-> r.users,
              resp |-> IF r.err # ErrNone
                       THEN HTTPResp("CreateUser", NoParam, body, userID, r.err,
                                     Error(StatusBadRequest, r.err, ""))
                       ELSE HTTPResp("CreateUser", NoParam, body, userID,
                                     ErrNone,
                                     Created(<<r.user>>,
                                             "User created successfully"))]

\* UserHandler.GetUsers
HandleGetUsers(store, fail) ==
    LET r == GetUsers(store, fail)
    IN  IF r.err # ErrNone
        THEN HTTPResp("GetUsers", NoParam, NoBody, 0, r.err,
                      Error(StatusInternalServerError, r.err, ""))
        ELSE HTTPResp("GetUsers", NoParam, NoBody, 0, ErrNone,
                      Success(<<r.list>>, "Users retrieved successfully"))

\* UserHandler.GetUserByID
HandleGetUserByID(store, idQ, fail) ==
    IF ~idQ.ok
    THEN HTTPResp("GetUserByID", idQ, NoBody, 0, ErrParse,
                  Error(StatusBadRequest, "Invalid user ID", ""))
    ELSE LET r == GetUserByID(store, idQ.val, fail)
         IN  IF r.err # ErrNone
             THEN HTTPResp("GetUserByID", idQ, NoBody, 0, r.err,
                           Error(StatusNotFound, r.err, ""))
             ELSE HTTPResp("GetUserByID", idQ, NoBody, 0, ErrNone,
                           Success(<<r.user>>, "User retrieved successfully"))

HandleUpdateUserOwnOnly(store, idQ, body, userID, getFail, saveFail) ==
    IF ~idQ.ok
    THEN [users |-> store,
          resp |-> HTTPResp("UpdateUser", idQ, body, userID, ErrParse,
                            Error(StatusBadRequest, "Invalid user ID", ""))]
    ELSE IF idQ.val # userID
    THEN [users |-> store,
          resp |-> HTTPResp("UpdateUser", idQ, body, userID, "forbidden",
                            Error(StatusForbidden, "forbidden", ""))]
    ELSE IF ~body.ok
    THEN [users |-> store,
          resp |-> HTTPResp("UpdateUser", idQ, body, userID, ErrParse,
                            Error(StatusBadRequest, "Invalid JSON format", ""))]
    ELSE IF ~ValidateCreateUserRequest(body.val)
    THEN [users |-> store,
          resp |-> HTTPResp("UpdateUser", idQ, body, userID, ErrValidation,
                            Error(StatusBadRequest, ErrValidation, ""))]
    ELSE LET r == UpdateUser(store, idQ.val, body.val, getFail, saveFail)
         IN  [users |-> r.users,
              resp |-> IF r.err # ErrNone
                       THEN HTTPResp("UpdateUser", idQ, body, userID, r.err,
                                     Error(StatusBadRequest, r.err, ""))
                       ELSE HTTPResp("UpdateUser", idQ, body, userID, ErrNone,
                                     Success(<<r.user>>,
                                             "User updated successfully"))]

\* UserHandler.UpdateUser: the handler reads the ID of the path and the
\* body; the userID of the context is not looked at
HandleUpdateUser(store, idQ, body, userID, getFail, saveFail) ==
    IF ~idQ.ok
    THEN [users |-> store,
          resp |-> HTTPResp("UpdateUser", idQ, body, userID, ErrParse,
                            Error(StatusBadRequest, "Invalid user ID", ""))]
    ELSE IF ~body.ok
    THEN [users |-> store,
          resp |-> HTTPResp("UpdateUser", idQ, body, userID, ErrParse,
                            Error(StatusBadRequest, "Invalid JSON format", ""))]
    ELSE IF ~ValidateCreateUserRequest(body.val)
    THEN [users |-> store,
          resp |-> HTTPResp("UpdateUser", idQ, body, userID, ErrValidation,
                            Error(StatusBadRequest, ErrValidation, ""))]
    ELSE LET r == UpdateUser(store, idQ.val, body.val, getFail, saveFail)
         IN  [users |-> r.users,
              resp |-> IF r.err # ErrNone
                       THEN HTTPResp("UpdateUser", idQ, body, userID, r.err,
                                     Error(StatusBadRequest, r.err, ""))
                       ELSE HTTPResp("UpdateUser", idQ, body, userID, ErrNone,
                                     Success(<<r.user>>,
                                             "User updated successfully"))]

\* UserHandler.DeleteUser: as UpdateUser, the userID of the context is not
\* looked at
HandleDeleteUser(store, idQ, userID, getFail, delFail) ==
    IF ~idQ.ok
    THEN [users |-> store,
          resp |-> HTTPResp("DeleteUser", idQ, NoBody, userID, ErrParse,
                            Error(StatusBadRequest, "Invalid user ID", ""))]
    ELSE LET r == DeleteUser(store, idQ.val, getFail, delFail)
         IN  [users |-> r.users,
              resp |-> IF r.err # ErrNone
                       THEN HTTPResp("DeleteUser", idQ, NoBody, userID, r.err,
                                     Error(StatusBadRequest, r.err, ""))
                       ELSE HTTPResp("DeleteUser", idQ, NoBody, userID, ErrNone,
                                     Success(<<>>, "User deleted successfully"))]

\* MangaHandler.GetMangas, GetActiveMangas and GetMangasByUser: the lists
\* without pagination
HandleList(op, store, f, order, fail, failMessage, okMessage) ==
    LET r == ServiceList(store, f, order, fail)
    IN  IF r.err # ErrNone
        THEN ListResp(op, f, {}, 0, 0, NewPaginationRequest(0, 0),
                      [Data |-> <<>>, Pagination |-> NoPagination],
                      Error(StatusInternalServerError, r.err, failMessage))
        ELSE ListResp(op, f, {}, 0, 0, NewPaginationRequest(0, 0),
                      [Data |-> r.Data, Pagination |-> NoPagination],
                      Success(<<r.Data>>, okMessage))

HandleGetMangas(store, order, fail) ==
    HandleList("GetMangas", store, FilterAll, order, fail,
               "Failed to get mangas", "Mangas retrieved successfully")

HandleGetActiveMangas(store, order, fail) ==
    HandleList("GetActiveMangas", store, FilterActive, order, fail,
               "Failed to get active mangas",
               "Active mangas retrieved successfully")

HandleGetMangasByUser(store, userQ, order, fail) ==
    IF ~userQ.ok
    THEN Rejected("GetMangasByUser", FilterUser(0), {}, "Invalid user ID")
    ELSE HandleList("GetMangasByUser", store, FilterUser(userQ.val), order,
                    fail, "Failed to get user mangas",
                    "User mangas retrieved successfully")

\* An Authorization header: set says whether the header is there and not
\* empty, bearer whether it starts with "Bearer ", token is what follows
\* the prefix (<<>> when nothing does).
Header(set, bearer, token) == [set |-> set, bearer |-> bearer, token |-> token]

NoHeader == Header(FALSE, FALSE, <<>>)

AuthMiddlewareTokenOnly(store, header, getFail) ==
    LET reject(error) ==
            [next |-> FALSE, userID |-> 0,
             reply |-> Error(StatusUnauthorized, error, "")]
    IN  IF ~header.set THEN reject("Authorization header is required")
        ELSE IF ~header.bearer
        THEN reject("Authorization header must start with 'Bearer '")
        ELSE IF header.token = <<>> THEN reject("Token is required")
        ELSE LET claims == ValidateJWT(header.token[1])
             IN  IF claims.err # ErrNone
                 THEN reject("Invalid or expired token")
                 ELSE [next |-> TRUE, userID |-> claims.UserID]

\* middleware.AuthMiddleware: next says whether the handler of the route is
\* called, userID is what the context then holds, reply is the answer of
\* the middleware when it is not
AuthMiddleware(store, header, getFail) ==
    LET reject(error) ==
            [next |-> FALSE, userID |-> 0,
             reply |-> Error(StatusUnauthorized, error, "")]
    IN  IF ~header.set THEN reject("Authorization header is required")
        ELSE IF ~header.bearer
        THEN reject("Authorization header must start with 'Bearer '")
        ELSE IF header.token = <<>> THEN reject("Token is required")
        ELSE LET v == ValidateToken(store, header.token[1], getFail)
             IN  IF v.err # ErrNone
                 THEN reject("Invalid or expired token")
                 ELSE [next |-> TRUE, userID |-> v.user.ID]

ErrUnauthorized == "unauthorized"

\* the response of a route: the header the request carried, whether the
\* handler of the route was called, and the handler's (or the middleware's)
\* answer
APIResp(header, invoked, h) ==
    [op |-> h.op, header |-> header, invoked |-> invoked, id |-> h.id,
     body |-> h.body, userID |-> h.userID, status |-> h.status,
     message |-> h.message, err |-> h.err, reply |-> h.reply]

\* the answer of the middleware: the path and the body are not read
Unauthorized(op, header, reply) ==
    APIResp(header, FALSE,
            HTTPResp(op, NoParam, NoBody, 0, ErrUnauthorized, reply))

\* the headers of the requests: none, one of another scheme, "Bearer " with
\* nothing after it, and "Bearer " with a token: one that does not verify
\* and, for each user ID, one that does
APITokens ==
    {[NoToken EXCEPT !.UserID = 1]} \cup {GenerateJWT(id, "x") : id \in ActingUsers}

Headers ==
    {NoHeader, Header(TRUE, FALSE, <<>>), Header(TRUE, TRUE, <<>>)}
    \cup {Header(TRUE, TRUE, <<t>>) : t \in APITokens}

\* user bodies: two valid ones, the first one's email with another
\* password, one without a name, one whose email is no email address, one
\* with a short password, and one that does not parse
UserBodies ==
    {[ok |-> TRUE, val |-> r] :
        r \in { [Name |-> "a", Email |-> "x", Password |-> "p"],
                [Name |-> "b", Email |-> "y", Password |-> "q"],
                [Name |-> "a", Email |-> "x", Password |-> "q"],
                [Name |-> "",  Email |-> "x", Password |-> "p"],
                [Name |-> "a", Email |-> "e", Password |-> "p"],
                [Name |-> "a", Email |-> "x", Password |-> "s"] }}
    \cup {[ok |-> FALSE, val |-> NoUserRequest]}

\* manga bodies: two valid ones, one the validator rejects and one that
\* does not parse; a body also names an owner (a key "user_created" of the
\* JSON text), which the request structs have no field for
APIMangaBodies ==
    {[ok |-> TRUE, val |-> r] :
        r \in { [Name |-> "b", Price |-> 1, IsActive |-> FALSE, UserCreated |-> 2],
                [Name |-> "a", Price |-> 2, IsActive |-> TRUE, UserCreated |-> 1],
                [Name |-> "",  Price |-> 1, IsActive |-> TRUE, UserCreated |-> 1] }}
    \cup {[ok |-> FALSE, val |-> NoMangaRequest]}

\* which database call of a request fails, if any: the read of the
\* middleware, or the first or the second one of the handler
APIFailures == {"none", "auth", "read", "write"}

APIMangaIDs == QueryParams(1 .. (MaxAPIMangas + 1))
APIUserIDs == QueryParams(UserKeys)

RegisterRoute ==
    /\ resp = NoResp
    /\ \E body \in UserBodies, fail \in Failures :
           LET r == HandleRegister(users, body, fail = "read", fail = "write")
           IN  /\ users' = r.users
               /\ resp' = APIResp(NoHeader, TRUE, r.resp)
    /\ UNCHANGED <<mangas, calc, pending>>

LoginRoute ==
    /\ resp = NoResp
    /\ \E body \in UserBodies, fail \in BOOLEAN :
           resp' = APIResp(NoHeader, TRUE, HandleLogin(users, body, fail))
    /\ UNCHANGED <<mangas, calc, users, pending>>

GetMeRoute ==
    /\ resp = NoResp
    /\ \E header \in Headers, fail \in {"none", "auth", "read"} :
           LET a == AuthMiddleware(users, header, fail = "auth")
           IN  resp' = IF ~a.next THEN Unauthorized("GetMe", header, a.reply)
                       ELSE APIResp(header, TRUE,
                                    HandleGetMe(users, a.userID, fail = "read"))
    /\ UNCHANGED <<mangas, calc, users, pending>>

GetUsersRoute ==
    /\ resp = NoResp
    /\ \E fail \in BOOLEAN :
           resp' = APIResp(NoHeader, TRUE, HandleGetUsers(users, fail))
    /\ UNCHANGED <<mangas, calc, users, pending>>

GetUserByIDRoute ==
    /\ resp = NoResp
    /\ \E idQ \in APIUserIDs, fail \in BOOLEAN :
           resp' = APIResp(NoHeader, TRUE, HandleGetUserByID(users, idQ, fail))
    /\ UNCHANGED <<mangas, calc, users, pending>>

CreateUserRoute ==
    /\ resp = NoResp
    /\ \E header \in Headers, body \in UserBodies, fail \in APIFailures :
           LET a == AuthMiddleware(users, header, fail = "auth")
               r == HandleCreateUser(users, body, a.userID,
                                     fail = "read", fail = "write")
           IN  IF ~a.next
               THEN /\ users' = users
                    /\ resp' = Unauthorized("CreateUser", header, a.reply)
               ELSE /\ users' = r.users
                    /\ resp' = APIResp(header, TRUE, r.resp)
    /\ UNCHANGED <<mangas, calc, pending>>

UpdateUserRoute ==
    /\ resp = NoResp
    /\ \E header \in Headers, idQ \in APIUserIDs, body \in UserBodies,
          fail \in APIFailures :
           LET a == AuthMiddleware(users, header, fail = "auth")
               r == HandleUpdateUser(users, idQ, body, a.userID,
                                     fail = "read", fail = "write")
           IN  IF ~a.next
               THEN /\ users' = users
                    /\ resp' = Unauthorized("UpdateUser", header, a.reply)
               ELSE /\ users' = r.users
                    /\ resp' = APIResp(header, TRUE, r.resp)
    /\ UNCHANGED <<mangas, calc, pending>>

DeleteUserRoute ==
    /\ resp = NoResp
    /\ \E header \in Headers, idQ \in APIUserIDs, fail \in APIFailures :
           LET a == AuthMiddleware(users, header, fail = "auth")
               r == HandleDeleteUser(users, idQ, a.userID,
                                     fail = "read", fail = "write")
           IN  IF ~a.next
               THEN /\ users' = users
                    /\ resp' = Unauthorized("DeleteUser", header, a.reply)
               ELSE /\ users' = r.users
                    /\ resp' = APIResp(header, TRUE, r.resp)
    /\ UNCHANGED <<mangas, calc, pending>>

CreateMangaRoute ==
    /\ resp = NoResp
    /\ \E header \in Headers, body \in APIMangaBodies,
          fail \in {"none", "auth", "write"} :
           LET a == AuthMiddleware(users, header, fail = "auth")
               r == HandleCreateManga(mangas, body, a.userID, fail = "write")
           IN  IF ~a.next
               THEN /\ mangas' = mangas
                    /\ resp' = Unauthorized("CreateManga", header, a.reply)
               ELSE /\ Len(r.mangas) <= MaxAPIMangas
                    /\ mangas' = r.mangas
                    /\ resp' = APIResp(header, TRUE, r.resp)
    /\ UNCHANGED <<calc, users, pending>>

UpdateMangaRoute ==
    /\ resp = NoResp
    /\ \E header \in Headers, idQ \in APIMangaIDs, body \in APIMangaBodies,
          fail \in APIFailures :
           LET a == AuthMiddleware(users, header, fail = "auth")
               r == HandleUpdateManga(mangas, idQ, body, a.userID,
                                      fail = "read", fail = "write")
           IN  IF ~a.next
               THEN /\ mangas' = mangas
                    /\ resp' = Unauthorized("UpdateManga", header, a.reply)
               ELSE /\ mangas' = r.mangas
                    /\ resp' = APIResp(header, TRUE, r.resp)
    /\ UNCHANGED <<calc, users, pending>>

DeleteMangaRoute ==
    /\ resp = NoResp
    /\ \E header \in Headers, idQ \in APIMangaIDs, fail \in APIFailures :
           LET a == AuthMiddleware(users, header, fail = "auth")
               r == HandleDeleteManga(mangas, idQ, a.userID,
                                      fail = "read", fail = "write")
           IN  IF ~a.next
               THEN /\ mangas' = mangas
                    /\ resp' = Unauthorized("DeleteManga", header, a.reply)
               ELSE /\ mangas' = r.mangas
                    /\ resp' = APIResp(header, TRUE, r.resp)
    /\ UNCHANGED <<calc, users, pending>>

GetMangaRoute ==
    /\ resp = NoResp
    /\ \E idQ \in APIMangaIDs, fail \in BOOLEAN :
           resp' = APIResp(NoHeader, TRUE, HandleGetManga(mangas, idQ, fail))
    /\ UNCHANGED <<mangas, calc, users, pending>>

\* the lists without pagination
GetMangasRoute ==
    /\ resp = NoResp
    /\ \E order \in RowOrders(mangas, FilterAll), fail \in BOOLEAN :
           resp' = HandleGetMangas(mangas, order, fail)
    /\ UNCHANGED <<mangas, calc, users, pending>>

GetActiveMangasRoute ==
    /\ resp = NoResp
    /\ \E order \in RowOrders(mangas, FilterActive), fail \in BOOLEAN :
           resp' = HandleGetActiveMangas(mangas, order, fail)
    /\ UNCHANGED <<mangas, calc, users, pending>>

GetMangasByUserRoute ==
    /\ resp = NoResp
    /\ \E userQ \in QueryParams(ActingUsers), fail \in BOOLEAN :
           \E order \in RowOrders(mangas, FilterUser(userQ.val)) :
               resp' = HandleGetMangasByUser(mangas, userQ, order, fail)
    /\ UNCHANGED <<mangas, calc, users, pending>>

\* the page and page_size the paginated lists are asked for here
APIPages == QueryParams({1})
APISizes == QueryParams({1})

GetMangasPaginatedRoute == GetMangasPaginatedOn(APIPages, APISizes)

GetActiveMangasPaginatedRoute == GetActiveMangasPaginatedOn(APIPages, APISizes)

GetMangasByUserPaginatedRoute == GetMangasByUserPaginatedOn(APIPages, APISizes)

GetMangasByPriceRangePaginatedRoute ==
    GetMangasByPriceRangePaginatedOn(APIPages, APISizes)

InitAPI ==
    /\ mangas = <<>>
    /\ resp = NoResp
    /\ calc = NoCalc
    /\ users = <<>>
    /\ pending = NoPending

NextAPI ==
    \/ RegisterRoute
    \/ LoginRoute
    \/ GetMeRoute
    \/ GetUsersRoute
    \/ GetUserByIDRoute
    \/ CreateUserRoute
    \/ UpdateUserRoute
    \/ DeleteUserRoute
    \/ CreateMangaRoute
    \/ UpdateMangaRoute
    \/ DeleteMangaRoute
    \/ GetMangaRoute
    \/ GetMangasRoute
    \/ GetActiveMangasRoute
    \/ GetMangasByUserRoute
    \/ GetMangasByPriceRange
    \/ GetMangasPaginatedRoute
    \/ GetActiveMangasPaginatedRoute
    \/ GetMangasByUserPaginatedRoute
    \/ GetMangasByPriceRangePaginatedRoute
    \/ Respond

SpecAPI == InitAPI /\ [][NextAPI]_vars

Init ==
    /\ mangas = <<>>
    /\ resp = NoResp
    /\ users = <<>>
    /\ pending = NoPending
    /\ calc = NoCalc

Next ==
    \/ DoCreateManga
    \/ DoUpdateManga
    \/ DoDeleteManga
    \/ DoGetMangaByID
    \/ DoGetMangas
    \/ DoGetActiveMangas
    \/ DoGetMangasByUser
    \/ DoGetMangasByPriceRange
    \/ Respond

Spec == Init /\ [][Next]_vars

(***************************************************************************)
(* The list handlers read the store and never write it: they are run       *)
(* against every table of up to MaxMangas rows that creates and deletes    *)
(* of the users 1..MaxUser leave behind.                                   *)
(***************************************************************************)
StoredRows ==
    {Manga(0, req.Name, req.Price, req.IsActive, owner, deleted) :
        req \in {r \in MangaRequests : IsValid(Manga(0, r.Name, r.Price, r.IsActive, 1, FALSE))},
        owner \in 1 .. MaxUser, deleted \in BOOLEAN}

Stores ==
    UNION {{[i \in 1 .. n |-> [rows[i] EXCEPT !.ID = i]] :
                rows \in [1 .. n -> StoredRows]} : n \in 0 .. MaxMangas}

InitList ==
    /\ mangas \in Stores
    /\ resp = NoResp
    /\ users = <<>>
    /\ pending = NoPending
    /\ calc = NoCalc

NextList ==
    \/ GetMangasPaginated
    \/ GetActiveMangasPaginated
    \/ GetMangasByUserPaginated
    \/ GetMangasByPriceRangePaginated
    \/ GetMangasByPriceRange
    \/ Respond

SpecList == InitList /\ [][NextList]_vars

(***************************************************************************)
(* Properties.                                                             *)
(***************************************************************************)
MutationOps == {"UpdateManga", "DeleteManga"}
ListOps == {"GetMangasPaginated", "GetActiveMangasPaginated",
            "GetMangasByUserPaginated", "GetMangasByPriceRangePaginated"}
Denied == {ErrDeniedUpdate, ErrDeniedDelete}

\* the item a request names is held by the store and is not deleted
Existing(store, id) == id \in 1 .. Len(store) /\ ~store[id].Deleted

\* C1: UpdateManga or DeleteManga on an existing item (one the store's read
\* returns) by a user who is not its owner returns access-denied and leaves
\* the stored item (and the whole table) as it was.
C1_NonOwnerDenied ==
    [][ ( /\ resp = NoResp
          /\ resp'.op \in MutationOps
          /\ resp'.err # ErrGet
          /\ Existing(mangas, resp'.id)
          /\ mangas[resp'.id].UserCreated # resp'.userID )
        => ( /\ resp'.err = IF resp'.op = "UpdateManga"
                            THEN ErrDeniedUpdate ELSE ErrDeniedDelete
             /\ mangas' = mangas ) ]_vars

C1_Witness ==
    /\ resp.op \in MutationOps
    /\ resp.err \in Denied
    /\ Existing(mangas, resp.id)
    /\ mangas[resp.id].UserCreated # resp.userID

\* C2: in every sequence of create, update and delete calls a stored item
\* changes only in an update or delete of that item issued by its owner; the
\* owner's update or delete of an existing item is never answered with
\* access-denied, and when it returns no error it has taken effect; a call
\* of anyone else never returns without error.
C2_OnlyOwnerMutates ==
    [][ /\ \A id \in 1 .. Len(mangas) :
              mangas'[id] # mangas[id]
              => /\ resp'.op \in MutationOps
                 /\ resp'.id = id
                 /\ resp'.userID = mangas[id].UserCreated
                 /\ mangas'[id].UserCreated = mangas[id].UserCreated
                 /\ mangas'[id].ID = id
        /\ ( /\ resp = NoResp
             /\ resp'.op \in MutationOps
             /\ Existing(mangas, resp'.id) )
           => /\ (mangas[resp'.id].UserCreated = resp'.userID
                    => resp'.err \notin Denied \cup {ErrNotFound})
              /\ (resp'.err = ErrNone
                    <=> /\ mangas[resp'.id].UserCreated = resp'.userID
                        /\ resp'.err \notin {ErrGet, ErrUpdate, ErrDelete})
              /\ (resp'.err = ErrNone /\ resp'.op = "DeleteManga"
                    => mangas'[resp'.id] = [mangas[resp'.id] EXCEPT !.Deleted = TRUE])
              /\ (resp'.err = ErrNone /\ resp'.op = "UpdateManga"
                    => mangas'[resp'.id] =
                         [mangas[resp'.id] EXCEPT !.Name = resp'.req.Name,
                                                  !.Price = resp'.req.Price,
                                                  !.IsActive = resp'.req.IsActive])
      ]_vars

C2_Witness ==
    /\ resp.op = "UpdateManga"
    /\ resp.err = ErrNone
    /\ Len(mangas) = 2
    /\ mangas[1].UserCreated # mangas[2].UserCreated
    /\ mangas[resp.id].UserCreated = resp.userID
    /\ mangas[resp.id].Name = resp.req.Name
    /\ mangas[resp.id].Price = resp.req.Price
    /\ mangas[resp.id].IsActive = resp.req.IsActive

\* the responses of the paginated list handlers that carry a page
Served == resp.op \in ListOps /\ resp.status = StatusOK

\* C3: NewPaginationRequest(page, pageSize) has Page = page when page >= 1
\* and 1 otherwise, and PageSize = pageSize when 1 <= pageSize <= 100 and 10
\* otherwise, each field whatever the other one is.
C3_Normalize ==
    calc.stage \in {"request", "window", "response"}
    => /\ calc.request.Page = (IF calc.page >= 1 THEN calc.page ELSE 1)
       /\ calc.request.PageSize =
            (IF calc.pageSize >= 1 /\ calc.pageSize <= 100
             THEN calc.pageSize ELSE 10)

C3_Witness ==
    /\ calc.stage = "request"
    /\ calc.page < 1
    /\ calc.pageSize = 100
    /\ calc.request = [Page |-> 1, PageSize |-> 100]

C5_TotalPages ==
    calc.stage = "response"
    => LET r == calc.response
           n == r.TotalPages
       IN  /\ n >= 0
           /\ n * calc.request.PageSize >= calc.totalItems
           /\ n > 0 => (n - 1) * calc.request.PageSize < calc.totalItems
           /\ r.CurrentPage = calc.request.Page
           /\ r.PageSize = calc.request.PageSize
           /\ r.TotalItems = calc.totalItems

C5_Witness ==
    /\ calc.stage = "response"
    /\ calc.totalItems > calc.request.PageSize
    /\ calc.totalItems % calc.request.PageSize # 0
    /\ calc.response.TotalPages = (calc.totalItems \div calc.request.PageSize) + 1

\* C6: has_next_page = (page < total_pages), has_prev_page = (page > 1);
\* next_page is present iff has_next_page and is then page + 1;
\* previous_page is present iff has_prev_page and is then page - 1.
C6_Flags ==
    calc.stage = "response"
    => LET r == calc.response
           page == calc.request.Page
       IN  /\ r.HasNextPage = (page < r.TotalPages)
           /\ r.HasPrevPage = (page > 1)
           /\ r.NextPage = (IF r.HasNextPage THEN <<page + 1>> ELSE <<>>)
           /\ r.PreviousPage = (IF r.HasPrevPage THEN <<page - 1>> ELSE <<>>)

C6_Witness ==
    /\ calc.stage = "response"
    /\ calc.response.HasNextPage
    /\ calc.response.HasPrevPage
    /\ calc.response.NextPage = <<calc.request.Page + 1>>
    /\ calc.response.PreviousPage = <<calc.request.Page - 1>>

\* C7 as stated: for every normalized request, total_items = 0 gives
\* total_pages = 0, has_next_page = false and has_prev_page = false.
C7_Original ==
    calc.stage = "response" /\ calc.totalItems = 0
    => /\ calc.response.TotalPages = 0
       /\ ~calc.response.HasNextPage
       /\ ~calc.response.HasPrevPage

\* C7 as amended: for every normalized request, total_items = 0 gives
\* total_pages = 0 and has_next_page = false; has_prev_page is (page > 1)
\* as for any other total, hence false on page 1.
C7_EmptyTotal ==
    calc.stage = "response" /\ calc.totalItems = 0
    => /\ calc.response.TotalPages = 0
       /\ ~calc.response.HasNextPage
       /\ calc.response.NextPage = <<>>
       /\ calc.response.HasPrevPage = (calc.request.Page > 1)
       /\ calc.request.Page = 1 => ~calc.response.HasPrevPage

C7_Witness ==
    /\ calc.stage = "response"
    /\ calc.totalItems = 0
    /\ calc.request.Page = 1
    /\ calc.response.TotalPages = 0
    /\ ~calc.response.HasNextPage
    /\ ~calc.response.HasPrevPage

\* the matching rows of the store in ascending order of primary key
RECURSIVE Ascending(_, _, _)
Ascending(store, f, i) ==
    IF i > Len(store) THEN <<>>
    ELSE IF Matches(store[i], f)
         THEN <<Sanitize(store[i])>> \o Ascending(store, f, i + 1)
         ELSE Ascending(store, f, i + 1)

\* positions [offset, offset + limit) of a sequence, offset >= 0
Slice(rows, offset, limit) ==
    [i \in 1 .. (IF Len(rows) - offset < 0 THEN 0
                 ELSE IF Len(rows) - offset < limit THEN Len(rows) - offset
                 ELSE limit) |-> rows[offset + i]]

\* C8 as stated: for every normalized PaginationRequest GetOffset returns
\* (Page - 1) * PageSize and GetLimit returns PageSize.
C8_OffsetLimit ==
    calc.stage \in {"window", "response"}
    => /\ calc.offset = (calc.request.Page - 1) * calc.request.PageSize
       /\ calc.limit = calc.request.PageSize

\* C9 as stated: a paginated list on a store nobody writes to has
\* total_items = the number of non-deleted rows matching the filter, and
\* data = positions [offset, offset + limit) of the matching rows sorted by
\* primary key ascending.  The offset is the one the query is given, and
\* the statement is taken for the requests whose offset is a position
\* (not negative), which leaves out nothing but overflowed offsets.
C9_PageIsSlice ==
    Served /\ GetOffset(resp.request) >= 0
    => /\ resp.pagination.TotalItems = Count(mangas, resp.filter)
       /\ resp.data = Slice(Ascending(mangas, resp.filter, 1),
                            GetOffset(resp.request), GetLimit(resp.request))

\* C10 as stated: a paginated list on a store nobody writes to returns
\* len(data) = min(page_size, max(0, total_items - offset)); a page whose
\* offset is at or beyond total_items has empty data, the total_items and
\* total_pages of page 1 and has_next_page = false.
C10_PageLength ==
    Served
    => LET total  == resp.pagination.TotalItems
           size   == resp.request.PageSize
           offset == (resp.request.Page - 1) * size
           left   == IF total - offset > 0 THEN total - offset ELSE 0
       IN  /\ Len(resp.data) = (IF size < left THEN size ELSE left)
           /\ offset >= total
                => /\ resp.data = <<>>
                   /\ total = Count(mangas, resp.filter)
                   /\ resp.pagination.TotalPages =
                        NewPaginationResponse(1, size, total).TotalPages
                   /\ ~resp.pagination.HasNextPage

\* the sanitizer has been applied to a User
SanitizedUser == calc.kind = "user" /\ calc.stage \in {"once", "twice"}

\* C11: for every User, whatever its Password holds, Sanitize returns a
\* User whose Password is empty and whose ID, Name, Email, CreatedAt and
\* UpdatedAt equal the input's.
C11_SanitizeUser ==
    SanitizedUser
    => /\ calc.once.Password = ""
       /\ calc.once.ID = calc.input.ID
       /\ calc.once.Name = calc.input.Name
       /\ calc.once.Email = calc.input.Email
       /\ calc.once.CreatedAt = calc.input.CreatedAt
       /\ calc.once.UpdatedAt = calc.input.UpdatedAt

C11_Witness ==
    /\ calc.kind = "user"
    /\ calc.stage = "once"
    /\ calc.input.Password = "h"
    /\ calc.input.CreatedAt # calc.input.UpdatedAt
    /\ calc.once = [calc.input EXCEPT !.Password = "", !.Deleted = FALSE]
    /\ calc.once.Password = ""

\* C13: Sanitize, of a User and of a Manga, leaves the entity it is called
\* on as it was, and Sanitize of its result equals its result field by
\* field.
C13_PureIdempotent ==
    /\ calc.stage \in {"once", "twice"} => calc.receiver = calc.input
    /\ calc.stage = "twice"
       => /\ calc.twice = calc.once
          /\ \A field \in DOMAIN calc.once :
                calc.twice[field] = calc.once[field]

C13_Witness ==
    /\ calc.stage = "twice"
    /\ calc.kind = "user"
    /\ calc.input.Password = "h"
    /\ calc.input.Deleted
    /\ calc.receiver = calc.input
    /\ calc.once # calc.input
    /\ calc.twice = calc.once

\* the operations of the services that hand a user back
UserOps == {"Register", "Login", "GetUserByID", "ValidateToken", "CreateUser",
            "GetUsers", "UpdateUser",
            "LegacyRegister", "LegacyLogin", "LegacyGetUserByID"}

\* C12: every User a service operation returns (Register, Login,
\* GetUserByID, ValidateToken, CreateUser, GetUsers, UpdateUser of the core
\* services, Register, Login, GetUserByID of the legacy auth service) has an
\* empty Password.
C12_NoPasswordReturned ==
    resp.op \in UserOps
    => /\ resp.user.Password = ""
       /\ \A i \in 1 .. Len(resp.list) : resp.list[i].Password = ""

PlainListOps == {"GetMangas", "GetActiveMangas", "GetMangasByUser",
                 "GetMangasByPriceRange"}

\* the WHERE clauses of the list queries
Filters ==
    {FilterAll, FilterActive}
    \cup {FilterUser(u) : u \in UserIDs}
    \cup {FilterPrice(lo, hi) : lo \in 0 .. 1, hi \in 0 .. 1}

\* the item with this ID is held by the store with its deleted marker set
DeletedItem(store, id) == id \in 1 .. Len(store) /\ store[id].Deleted

Answered == resp # NoResp

StoreErrors == {ErrGet, ErrCreate, ErrUpdate, ErrDelete}

\* C15: a create request whose body parses, the store not failing, succeeds
\* if and only if the name is non-empty, the price is >= 0 (0 included) and
\* the acting user ID is > 0; the new item then satisfies the invariant, and
\* a request that does not succeed leaves the store unchanged.
C15_CreateIffValid ==
    [][ ( /\ resp = NoResp
          /\ resp'.op = "CreateManga"
          /\ resp'.body.ok
          /\ resp'.err \notin StoreErrors )
        => /\ resp'.status = StatusCreated
              <=> /\ resp'.body.val.Name # ""
                  /\ resp'.body.val.Price >= 0
                  /\ resp'.userID > 0
           /\ resp'.status # StatusCreated => mangas' = mangas
           /\ resp'.status = StatusCreated
              => /\ Len(mangas') = Len(mangas) + 1
                 /\ IsValid(mangas'[Len(mangas')]) ]_vars

\* C16: a manga endpoint answers an absent item with 404, an ownership
\* mismatch with 403, rejected input with 400 and a failure of the store
\* with 500.
C16_StatusByClass ==
    Answered
    => /\ resp.err = ErrNotFound => resp.status = StatusNotFound
       /\ resp.err \in Denied => resp.status = StatusForbidden
       /\ resp.err \in {ErrParse, ErrValidation, ErrInvalid}
            => resp.status = StatusBadRequest
       /\ resp.err \in StoreErrors => resp.status = StatusInternalServerError

PriceRangeOps == {"GetMangasByPriceRange", "GetMangasByPriceRangePaginated"}

\* C17: a list request in which page, page_size, min or max does not parse
\* as a number is answered with 400, and not served with a default in the
\* parameter's place (the store not failing).
C17_MalformedRejected ==
    ( /\ resp.op \in ListOps \cup PriceRangeOps
      /\ resp.malformed # {}
      /\ resp.status # StatusInternalServerError )
    => resp.status = StatusBadRequest

\* C20: a price-range list request, plain or paginated, whose min and max
\* parse and whose min is greater than its max is answered with 400 (the
\* store not failing).
C20_MinAboveMax ==
    ( /\ resp.op \in PriceRangeOps
      /\ resp.malformed \cap {"min", "max"} = {}
      /\ resp.filter.min > resp.filter.max
      /\ resp.status # StatusInternalServerError )
    => resp.status = StatusBadRequest

\* the table of mangas a second submission of the request just answered
\* leaves, the store not failing
ResubmittedMangas ==
    CASE resp'.op = "CreateManga"
           -> CreateManga(mangas', resp'.req, resp'.userID, FALSE).mangas
      [] resp'.op = "UpdateManga"
           -> UpdateManga(mangas', resp'.id, resp'.req, resp'.userID,
                          FALSE, FALSE).mangas
      [] resp'.op = "DeleteManga"
           -> DeleteManga(mangas', resp'.id, resp'.userID, FALSE, FALSE).mangas
      [] OTHER -> mangas'

\* the table of users a second submission of the request just answered
\* leaves, the store not failing
ResubmittedUsers ==
    CASE resp'.op = "Register"
           -> Register(users', resp'.req, FALSE, FALSE).users
      [] resp'.op = "CreateUser"
           -> CreateUser(users', resp'.req, FALSE, FALSE).users
      [] resp'.op = "UpdateUser"
           -> UpdateUser(users', resp'.id, resp'.req, FALSE, FALSE).users
      [] resp'.op = "DeleteUser"
           -> DeleteUser(users', resp'.id, FALSE, FALSE).users
      [] OTHER -> users'

\* C18: the same request (CreateManga, UpdateManga, DeleteManga, Register,
\* CreateUser, UpdateUser, DeleteUser) issued a second time with the same
\* arguments and acting user, right after it has returned without error,
\* leaves the store in the state the first one left.
C18_Resubmit ==
    [][ ( resp = NoResp /\ resp'.op # "none" /\ resp'.err = ErrNone )
        => /\ ResubmittedMangas = mangas'
           /\ ResubmittedUsers = users' ]_vars

\* a list has returned a page
Returned ==
    /\ pending.op = "ListPaginated"
    /\ pending.stage = "returned"
    /\ pending.err = ErrNone

\* the rows a page can hold by the total it reports
RoomByTotal ==
    LET left == pending.total - GetOffset(pending.request)
    IN  IF left <= 0 THEN 0
        ELSE IF left < pending.request.PageSize THEN left
        ELSE pending.request.PageSize

\* C19: the count and the fetch of a paginated list are two reads of the
\* table: total_items is what the count found, the page is the window of
\* the matching rows as they are at the fetch, and the two are returned as
\* they are, without error; when no write came between the two reads the
\* page holds as many rows as the total leaves room for.
C19_CountThenFetch ==
    /\ [][ ( pending.op = "ListPaginated" /\ pending.stage = "counted"
             /\ pending'.stage = "returned" /\ pending'.err = ErrNone )
           => /\ pending'.pagination.TotalItems = pending.total
              /\ \A i \in 1 .. Len(pending'.data) :
                    /\ pending'.data[i].ID \in MatchingIDs(mangas, pending.filter)
                    /\ pending'.data[i] = mangas[pending'.data[i].ID]
              /\ LET left == Count(mangas, pending.filter)
                               - GetOffset(pending.request)
                 IN  Len(pending'.data) =
                       (IF left <= 0 THEN 0
                        ELSE IF left < pending.request.PageSize THEN left
                        ELSE pending.request.PageSize) ]_vars
    /\ [](Returned /\ ~pending.written => Len(pending.data) = RoomByTotal)

\* a page has been returned that holds more rows than its total_items
\* leaves room for: a create came between the count and the fetch
C19_Witness ==
    /\ Returned
    /\ pending.written
    /\ Len(pending.data) > RoomByTotal
    /\ pending.pagination.TotalItems = pending.total

\* C21: every response of every /api/v1 route, the rejections of the
\* authentication middleware included, is the envelope (success, message,
\* data, error) sent with a status, and success is true if and only if the
\* status is 2xx: 200 or 201 with success = true and no error, any other
\* status with success = false, an error and no data.
C21_Envelope ==
    Answered
    => /\ DOMAIN resp.reply = {"status", "Success", "Message", "Data", "Error"}
       /\ resp.reply.Success \in BOOLEAN
       /\ resp.reply.Success <=> resp.reply.status \in 200 .. 299
       /\ resp.reply.Success
            => /\ resp.reply.status \in {StatusOK, StatusCreated}
               /\ resp.reply.Error = <<>>
       /\ ~resp.reply.Success
            => /\ resp.reply.status \in 400 .. 599
               /\ resp.reply.Data = <<>>
               /\ resp.reply.Error # <<>>
       /\ resp.status = resp.reply.status

\* the middleware has rejected a request for a route that writes
C21_Witness ==
    /\ resp.op = "CreateManga"
    /\ ~resp.invoked
    /\ resp.reply.status = StatusUnauthorized
    /\ ~resp.reply.Success
    /\ resp.reply.Data = <<>>
    /\ resp.reply.Error = <<"Token is required">>

\* C22: the owner ID of an item created through CreateManga is the ID of
\* the user the request's token identifies, whatever owner the body names,
\* and no request changes the owner ID of a stored item.
C22_OwnerIsActingUser ==
    [][ /\ ( /\ resp = NoResp
             /\ resp'.op = "CreateManga"
             /\ resp'.status = StatusCreated )
           => /\ Len(mangas') = Len(mangas) + 1
              /\ resp'.header.token # <<>>
              /\ resp'.userID = resp'.header.token[1].UserID
              /\ resp'.userID \in 1 .. Len(users)
              /\ ~users[resp'.userID].Deleted
              /\ mangas'[Len(mangas')].UserCreated = resp'.userID
              /\ resp'.reply.Data[1].UserCreated = resp'.userID
        /\ \A id \in 1 .. Len(mangas) :
              /\ id \in 1 .. Len(mangas')
              /\ mangas'[id].UserCreated = mangas[id].UserCreated ]_vars

\* an item has been created by a user for a body that names another owner
C22_Witness ==
    /\ resp.op = "CreateManga"
    /\ resp.status = StatusCreated
    /\ resp.body.val.UserCreated # resp.userID
    /\ mangas[Len(mangas)].UserCreated = resp.userID
    /\ mangas[Len(mangas)].ID = resp.reply.Data[1].ID

\* the routes SetupRoutes puts behind the middleware
ProtectedOps ==
    {"GetMe", "CreateUser", "UpdateUser", "DeleteUser",
     "CreateManga", "UpdateManga", "DeleteManga"}

\* the header is "Bearer " followed by a token that verifies and names a
\* row of the table that is not deleted
IdentifiesUser(store, header) ==
    /\ header.set
    /\ header.bearer
    /\ header.token # <<>>
    /\ header.token[1].ok
    /\ header.token[1].UserID \in 1 .. Len(store)
    /\ ~store[header.token[1].UserID].Deleted

\* C23: the handler of a protected route runs only for a request whose
\* Authorization header is "Bearer <token>" with a token that validates and
\* identifies a user stored and not deleted when the request arrives, and
\* it sees that user's ID as the acting user; every other request to such a
\* route, a valid token of a deleted user included, is answered 401 without
\* the handler being invoked and leaves both tables unchanged.
C23_ProtectedRoutes ==
    [][ ( /\ resp = NoResp
          /\ resp' # NoResp
          /\ resp'.op \in ProtectedOps )
        => /\ resp'.invoked
               => /\ IdentifiesUser(users, resp'.header)
                  /\ resp'.userID = resp'.header.token[1].UserID
           /\ ~IdentifiesUser(users, resp'.header) => ~resp'.invoked
           /\ ~resp'.invoked
               => /\ resp'.status = StatusUnauthorized
                  /\ resp'.reply.status = StatusUnauthorized
                  /\ users' = users
                  /\ mangas' = mangas ]_vars

\* a token that verifies, of a user deleted earlier, has been turned away
\* from a protected route
C23_Witness ==
    /\ resp # NoResp
    /\ resp.op = "DeleteManga"
    /\ ~resp.invoked
    /\ resp.status = StatusUnauthorized
    /\ resp.header.token # <<>>
    /\ resp.header.token[1].ok
    /\ resp.header.token[1].UserID \in 1 .. Len(users)
    /\ users[resp.header.token[1].UserID].Deleted
    /\ \E id \in 1 .. Len(mangas) :
           mangas[id].UserCreated = resp.header.token[1].UserID

\* a row of the table that is not deleted holds the email
EmailOfLiveUser(store, email) ==
    \E i \in 1 .. Len(store) : store[i].Email = email /\ ~store[i].Deleted

\* C24: Register with the email of a stored user that is not deleted
\* returns an error, hands back no user and no token and leaves the users
\* table as it was; the error is "user with this email already exists"
\* whenever the lookup by email answers (when the lookup itself fails the
\* user data is found invalid or the insert is refused by the unique index
\* instead).
C24_DuplicateEmail ==
    [][ ( /\ resp = NoResp
          /\ resp' # NoResp
          /\ resp'.op = "Register"
          /\ EmailOfLiveUser(users, resp'.req.Email) )
        => /\ users' = users
           /\ resp'.token = NoToken
           /\ resp'.user = NoUser
           /\ resp'.err \in {UErrExists, UErrInvalid, UErrCreate}
           /\ \A createFail \in BOOLEAN :
                  LET r == Register(users, resp'.req, FALSE, createFail)
                  IN  /\ r.err = UErrExists
                      /\ r.users = users
                      /\ r.token = NoToken
                      /\ r.user = NoUser ]_vars

\* Register has been refused for the email of a stored user, asked with
\* another name and password than that user's
C24_Witness ==
    /\ resp # NoResp
    /\ resp.op = "Register"
    /\ resp.err = UErrExists
    /\ resp.token = NoToken
    /\ \E i \in 1 .. Len(users) :
           /\ users[i].Email = resp.req.Email
           /\ ~users[i].Deleted
           /\ users[i].Password # HashPassword(resp.req.Password)

\* what UpdateUser or DeleteUser of the user routes does for the caller
\* userID, with the given store calls failing
UserMutation(op, store, idQ, body, userID, getFail, writeFail) ==
    IF op = "UpdateUser"
    THEN HandleUpdateUser(store, idQ, body, userID, getFail, writeFail)
    ELSE HandleDeleteUser(store, idQ, userID, getFail, writeFail)

\* the request names a stored user that is not deleted, and for UpdateUser
\* carries a body the validator accepts whose email no other row holds
UserMutationAcceptable(op, store, idQ, body) ==
    /\ idQ.ok
    /\ idQ.val \in 1 .. Len(store)
    /\ ~store[idQ.val].Deleted
    /\ op = "UpdateUser"
           => /\ body.ok
              /\ ValidateCreateUserRequest(body.val)
              /\ ~EmailTaken(store, idQ.val, body.val.Email)

\* C25: UpdateUser and DeleteUser of the user routes do for every
\* authenticated caller what they do for the target user itself: the table
\* they leave and the status they answer do not depend on the caller's ID,
\* and on a stored, not deleted target (with an acceptable body) they
\* succeed and take effect when the store does not fail, also when the
\* caller is another user than the target.
C25_AnyCallerMutatesAnyUser ==
    [][ ( /\ resp = NoResp
          /\ resp' # NoResp
          /\ resp'.op \in {"UpdateUser", "DeleteUser"}
          /\ resp'.invoked )
        => LET op == resp'.op
               idQ == resp'.id
               body == resp'.body
           IN  /\ \A u \in ActingUsers, getFail \in BOOLEAN,
                     writeFail \in BOOLEAN :
                      LET r == UserMutation(op, users, idQ, body, u,
                                            getFail, writeFail)
                          own == UserMutation(op, users, idQ, body,
                                              resp'.userID, getFail, writeFail)
                      IN  /\ r.users = own.users
                          /\ r.resp.reply = own.resp.reply
               /\ \E getFail \in BOOLEAN, writeFail \in BOOLEAN :
                      LET own == UserMutation(op, users, idQ, body,
                                              resp'.userID, getFail, writeFail)
                      IN  /\ users' = own.users
                          /\ resp'.reply = own.resp.reply
               /\ UserMutationAcceptable(op, users, idQ, body)
                      => LET r == UserMutation(op, users, idQ, body,
                                               resp'.userID, FALSE, FALSE)
                         IN  /\ r.resp.status = StatusOK
                             /\ IF op = "DeleteUser"
                                THEN r.users[idQ.val].Deleted
                                ELSE /\ r.users[idQ.val].Name = body.val.Name
                                     /\ r.users[idQ.val].Email = body.val.Email
               /\ resp'.status = StatusOK
                      => IF op = "DeleteUser"
                         THEN users'[idQ.val].Deleted
                         ELSE /\ users'[idQ.val].Name = body.val.Name
                              /\ users'[idQ.val].Email = body.val.Email ]_vars

\* a user has changed the name and email of another user's record
C25_Witness ==
    /\ resp # NoResp
    /\ resp.op = "UpdateUser"
    /\ resp.invoked
    /\ resp.status = StatusOK
    /\ resp.id.val # resp.userID
    /\ users[resp.id.val].Name = resp.body.val.Name
    /\ users[resp.id.val].Email = resp.body.val.Email
    /\ users[resp.id.val].Name # users[resp.userID].Name

\* C26: every stored item that is not deleted satisfies Manga.IsValid: its
\* name is not empty, its price is not negative and its owner ID is
\* positive.
C26_StoredItemsValid ==
    \A id \in 1 .. Len(mangas) : ~mangas[id].Deleted => IsValid(mangas[id])

\* C27: every stored user satisfies User.IsValid: its name, its email and
\* its password hash are not empty.
C27_StoredUsersValid ==
    \A id \in 1 .. Len(users) : UserIsValid(users[id])

\* C28: for every normalized PaginationRequest, the one built from the
\* largest page number of the integer type included, GetOffset is not
\* negative and is the product (Page - 1) * PageSize taken in the integers.
C28_OffsetNoOverflow ==
    calc.stage \in {"window", "response"}
    => /\ calc.request.Page >= 1
       /\ calc.request.PageSize \in 1 .. MaxPageSize
       /\ calc.offset >= 0
       /\ calc.offset = (calc.request.Page - 1) * calc.request.PageSize

(***************************************************************************)
(* UpdateManga as the two store calls it makes, GetByID and then Update,   *)
(* with the CreateManga and DeleteManga calls of other requests running    *)
(* between them.  pending holds the update between its two calls: the row  *)
(* it has read, with the fields of the request assigned.                   *)
(***************************************************************************)
PendingUpdate(stage, id, userID, manga, err) ==
    [op |-> "UpdateManga", stage |-> stage, id |-> id, userID |-> userID,
     manga |-> manga, err |-> err]

\* mangaService.UpdateManga up to the call of mangaRepo.Update: the read,
\* the ownership check and the assignment of the request's fields
UpdateReadStep ==
    /\ pending = NoPending
    /\ \E id \in MangaIDs, req \in MangaRequests, userID \in ActingUsers,
          fail \in BOOLEAN :
           LET g == GetByID(mangas, id, fail)
           IN  pending' =
                 IF g.err # ErrNone
                 THEN PendingUpdate("returned", id, userID, NoManga, g.err)
                 ELSE IF ~OwnedBy(g.manga, userID)
                 THEN PendingUpdate("returned", id, userID, NoManga,
                                    ErrDeniedUpdate)
                 ELSE PendingUpdate("read", id, userID,
                                    [g.manga EXCEPT !.Name = req.Name,
                                                    !.Price = req.Price,
                                                    !.IsActive = req.IsActive],
                                    ErrNone)
    /\ UNCHANGED <<mangas, resp, calc, users>>

\* mangaRepo.Update of the row read earlier, and the return of UpdateManga
UpdateSaveStep ==
    /\ pending.op = "UpdateManga"
    /\ pending.stage = "read"
    /\ \E fail \in BOOLEAN :
           LET u == RepoUpdate(mangas, pending.manga, fail)
           IN  /\ mangas' = u.mangas
               /\ pending' = IF u.err # ErrNone
                             THEN [pending EXCEPT !.stage = "returned",
                                                  !.manga = NoManga,
                                                  !.err = u.err]
                             ELSE [pending EXCEPT !.stage = "returned",
                                                  !.manga = Sanitize(pending.manga)]
    /\ UNCHANGED <<resp, calc, users>>

ReturnUpdate ==
    /\ pending.op = "UpdateManga"
    /\ pending.stage = "returned"
    /\ pending' = NoPending
    /\ UNCHANGED <<mangas, resp, calc, users>>

InitUpdateRace ==
    /\ mangas = <<>>
    /\ resp = NoResp
    /\ calc = NoCalc
    /\ users = <<>>
    /\ pending = NoPending

NextUpdateRace ==
    \/ UpdateReadStep
    \/ UpdateSaveStep
    \/ ReturnUpdate
    \/ OtherCreateManga
    \/ OtherDeleteManga

SpecUpdateRace == InitUpdateRace /\ [][NextUpdateRace]_vars

\* C29: a stored item that DeleteManga has marked deleted stays deleted, so
\* it is never visible again, whatever an UpdateManga that read it before
\* the delete writes back afterwards.
C29_DeletedStaysDeleted ==
    [][ \A id \in 1 .. Len(mangas) :
            mangas[id].Deleted
            => /\ id \in 1 .. Len(mangas')
               /\ mangas'[id].Deleted
               /\ GetByID(mangas', id, FALSE).err = ErrNotFound ]_vars

\* a stored user that is not deleted has the email, and the password is
\* not the one its hash was made of
WrongPassword(store, req) ==
    /\ EmailOfLiveUser(store, req.Email)
    /\ ~CheckPasswordHash(req.Password,
                          UserGetByEmail(store, req.Email, FALSE).user.Password)

\* C30: a Login request whose email no stored user has and one whose email
\* is a stored user's but whose password is wrong get the same answer: the
\* error "invalid email or password" with status 401, no data (so no
\* token) and the users table as it was.
C30_LoginFailuresAlike ==
    [][ ( /\ resp = NoResp
          /\ resp' # NoResp
          /\ resp'.op = "Login"
          /\ resp'.body.ok
          /\ ValidateLoginRequest(resp'.body.val)
          /\ \/ ~EmailOfLiveUser(users, resp'.body.val.Email)
             \/ WrongPassword(users, resp'.body.val) )
        => /\ resp'.reply = Error(StatusUnauthorized, UErrLogin, "")
           /\ resp'.status = StatusUnauthorized
           /\ resp'.reply.Data = <<>>
           /\ users' = users
           /\ mangas' = mangas ]_vars

\* Login has been refused for a stored user's email with a wrong password,
\* and a request with an email no stored user has gets the same envelope
C30_Witness ==
    /\ resp # NoResp
    /\ resp.op = "Login"
    /\ resp.body.ok
    /\ WrongPassword(users, resp.body.val)
    /\ resp.reply = Error(StatusUnauthorized, UErrLogin, "")
    /\ \E b \in UserBodies :
           /\ b.ok
           /\ ValidateLoginRequest(b.val)
           /\ ~EmailOfLiveUser(users, b.val.Email)
           /\ HandleLogin(users, b, FALSE).reply = resp.reply

====
